---- MODULE Spec2Model ----
(***************************************************************************)
(* Model of the authentication / token-source subsystem of                 *)
(* clambin/mediaclients (packages plex/plextv and plex/plexauth):          *)
(*   - the succeed-once guard untilSuccessful,                             *)
(*   - the device-bound (JWT) token source built on it,                    *)
(*   - the caching token source (mutex variant of plextv, and the          *)
(*     guard-based variant of plexauth).                                   *)
(* Callers are goroutines; every action is one step of one caller between  *)
(* two points where the Go code can be observed by another goroutine       *)
(* (atomic load/store, mutex operation, call to an external collaborator). *)
(***************************************************************************)
EXTENDS Naturals, FiniteSets, Sequences, TLC

(* ---- bounds ---- *)
NumCallers == 2
MaxCalls == 3
MaxTime == 1
MaxSrcCalls == 2
MaxPolls == 3
MaxLen == 1
MaxVaultCalls == 2
MaxOpens == 1
MaxDevices == 2
MaxMtsCalls == 3
MaxWaitCalls == 3

Procs == 1..NumCallers

VARIABLES
    pc,         \* position of every caller
    calls,      \* number of calls each caller has started
    res,        \* what the caller's last finished call returned
    \* untilSuccessful
    done,       \* untilSuccessful.done
    lock,       \* holder of untilSuccessful.lock, 0 when free
    err,        \* doSlow's named result per caller: "nil" or an error
    \* observation of the guard
    ranF,       \* the caller's current call executed the guarded function
    fOut,       \* outcome of that execution
    execs,      \* number of executions of the guarded function started
    succeeded,  \* some execution has returned nil
    okAt,       \* number of the execution that first returned nil, 0 if none
    panicked,   \* some execution has panicked
    \* jwtTokenSource and its collaborators
    store,      \* record held by the JWTSecureDataStore, NoRecord when absent
    secureData, \* jwtTokenSource.secureData
    hasRegistrar, \* jwtTokenSource.registrar != nil
    token,      \* initialize's local token: "none", "valid" or "invalid"
    keys,       \* number of key pairs generated so far
    uploaded,   \* keys the auth service has accepted (POST /auth/jwk -> 201)
    signKey,    \* arguments of the caller's JWTToken call: <<privateKey, keyID>>
    \* observation of the device-bound flow
    cause,      \* where the last execution of initialize returned
    regCalls,   \* number of registrar calls
    saveCalls,  \* number of Save calls on the store
    attempt,    \* what the running execution of initialize has done so far
    signed,     \* <<privateKey, keyID>> pairs an assertion was signed with
    ops,        \* what the caller's current Token call has attempted so far
    \* cachingTokenSource and its inner source
    cToken,     \* the cached token: <<>> when none, else <<token>>
    cLock,      \* holder of cachingTokenSource.lock, 0 when free
    cHasSource, \* cachingTokenSource.tokenSource != nil
    usePMS,     \* a pmsTokenSource sits between the cache and the upstream source
    now,        \* time.Now()
    \* observation of the caching source
    log,        \* outcomes of the inner source's invocations, in order
    cT0,        \* time at which the caller's call was made
    cStart,     \* inner invocations that had returned when it was made
    cChk,       \* time at which the caller's call looked at the cached token
    cSaw,       \* that look found a valid token
    cUsed,      \* number of the inner invocation the call made, 0 if none
    cRes,       \* what the call returned
    \* RegisterWithPIN: one call, its context and the auth service
    pinPc,      \* position of the call
    pinCtx,     \* the caller's context: "live", or the error of ctx.Err()
    pinConfirmed, \* the user has confirmed the PIN
    pinTimer,   \* the timer of the current wait has fired
    pinRes,     \* what the call returned
    \* observation of the PIN flow
    pinPolls,   \* validation requests sent (counted up to MaxPolls)
    pinCb,      \* calls of the caller's callback
    \* Vault: one file, the Vault that is open on it, and its callers
    vFile,      \* the file at filePath
    vContent,   \* Vault.content: <<>> when nil, else <<payload>>
    vPassphrase, \* Vault.passphrase
    vLock,      \* holder of Vault.lock, 0 when free
    vPc,        \* position of every caller of the Vault
    vArg,       \* the payload the caller's Save was given
    vRec,       \* the record the caller's Save has built
    vRes,       \* what the last Vault call to return has returned
    \* observation of the Vault
    vOrigin,    \* <<>>, or the Save that wrote the file's record, and whether it was altered since
    vSeen,      \* the contents the Vault has had since the caller's Load began
    vCalls,     \* number of Load and Save calls started
    vOpens,     \* number of Vaults opened on the file after the first
    \* calls of Token.IsValid and of the Config methods that need a token
    cfgOut,     \* the last call: its token, the time, what it returned and sent
    \* pmsTokenSource (the Server Token Resolver): one caller, the directory
    pmsPc,      \* position of the caller's Token call
    pmsDir,     \* the devices the auth service lists
    pmsName,    \* pmsTokenSource.pmsName
    pmsTok,     \* Token's local token, <<>> before the upstream source returned
    pmsOut,     \* what the last Token call returned, requested and was answered
    \* tokenSource of the media server client (package plex)
    mToken,     \* tokenSource.token: <<>> when nil, else <<token>>
    mFlight,    \* the caller whose function the singleflight group runs, 0 if none
    mWaiters,   \* the callers that wait in Do for that function's result
    mPc,        \* position of every caller
    mLoc,       \* the caller's locals: the result of pmsToken, of Do
    mDir,       \* the token the auth service lists for the media server, 0 if none
    \* observation of that token source
    mOps,       \* requests the caller's current call has made
    mFirst,     \* <<>>, or the token of the first call that returned one
    mLater,     \* the caller's call began after a call had returned a token
    mCalls,     \* number of Token calls started
    \* cachingTokenSource.Token, each call with the context it was given
    wPc,        \* position of every caller
    wCtx,       \* the context of the caller's call: "live", or its ctx.Err()
    wAt,        \* where the call was when its context was done, "none" if live
    wLock,      \* holder of cachingTokenSource.lock, 0 when free
    wToken,     \* a valid token is cached
    wRes,       \* what the caller's last call returned
    wCalls      \* number of Token calls started

guardVars == <<done, lock, err>>
guardObs == <<ranF, fOut, execs, succeeded, okAt, panicked>>
callVars == <<pc, calls, res>>
jwtVars == <<store, secureData, hasRegistrar, token, keys, uploaded, signKey>>
jwtObs == <<cause, regCalls, saveCalls, attempt, signed, ops>>
cacheVars == <<cToken, cLock, cHasSource, usePMS, now>>
cacheObs == <<log, cT0, cStart, cChk, cSaw, cUsed, cRes>>
pinVars == <<pinPc, pinCtx, pinConfirmed, pinTimer, pinRes, pinPolls, pinCb>>
vaultVars == <<vFile, vContent, vPassphrase, vLock, vPc, vArg, vRec, vRes>>
vaultObs == <<vOrigin, vSeen, vCalls, vOpens>>
\* the components that are modelled on their own, apart from the token sources
cfgVars == <<cfgOut>>
pmsVars == <<pmsPc, pmsDir, pmsName, pmsTok, pmsOut>>
mtsVars == <<mToken, mFlight, mWaiters, mPc, mLoc, mDir>>
mtsObs == <<mOps, mFirst, mLater, mCalls>>
waitVars == <<wPc, wCtx, wAt, wLock, wToken, wRes, wCalls>>
compVars == <<vaultVars, vaultObs, cfgVars, pmsVars, mtsVars, mtsObs, waitVars>>
\* everything the guard's own steps leave alone
outsideGuard == <<jwtVars, jwtObs, cacheVars, cacheObs>>
vars == <<pc, calls, res, done, lock, err, ranF, fOut, execs, succeeded, okAt, panicked,
          store, secureData, hasRegistrar, token, keys, uploaded, signKey,
          cause, regCalls, saveCalls, attempt, signed, ops,
          cToken, cLock, cHasSource, usePMS, now, log, cT0, cStart, cChk, cSaw, cUsed, cRes,
          pinPc, pinCtx, pinConfirmed, pinTimer, pinRes, pinPolls, pinCb,
          vFile, vContent, vPassphrase, vLock, vPc, vArg, vRec, vRes,
          vOrigin, vSeen, vCalls, vOpens,
          cfgOut, pmsPc, pmsDir, pmsName, pmsTok, pmsOut,
          mToken, mFlight, mWaiters, mPc, mLoc, mDir, mOps, mFirst, mLater, mCalls,
          wPc, wCtx, wAt, wLock, wToken, wRes, wCalls>>

\* Config.ClientID, and the client ID of a record written by another install.
ClientID == "my-client-id"
OtherClientID == "invalid-client-id"

\* JWTSecureData{}: the zero value. Keys are numbered from 1; 0 stands for a
\* nil private key and for the empty key ID.
ZeroData == [ClientID |-> "", PrivateKey |-> 0, KeyID |-> 0]

\* What is recorded of an execution of initialize: the record, the number
\* of Save and registrar calls and of keys when it began, what the vault and
\* Load returned to it, and which of its steps have succeeded.  This is the
\* value before any execution has begun.
NoAttempt == [regOK |-> FALSE, upOK |-> FALSE, saved |-> FALSE,
              store0 |-> <<>>, saves0 |-> 0, regs0 |-> 0, keys0 |-> 0,
              vaultErr |-> "none", loadErr |-> "none", loadData |-> ZeroData]

\* What one Token call has attempted: how often each operation, the error
\* its Load returned, and whether an operation has failed.  A Load that finds
\* no record, or the record of another client, has not failed: the setup
\* goes on from it by design.
NoOps == [load |-> 0, reg |-> 0, upload |-> 0, save |-> 0, nonce |-> 0,
          exch |-> 0, lookup |-> 0, loadErr |-> "none", failed |-> FALSE]

\* Results of a Token call on a caching source.
NoResult == [kind |-> "none", tok |-> <<>>, e |-> "", by |-> 0]
TokResult(t) == [kind |-> "tok", tok |-> t, e |-> "", by |-> 0]
ErrResult(e, i) == [kind |-> "err", tok |-> <<>>, e |-> e, by |-> i]

(***************************************************************************)
(* untilSuccessful                                                         *)
(***************************************************************************)

\* Calls started so far, over all callers.
RECURSIVE SumTo(_, _)
SumTo(f, n) == IF n = 0 THEN 0 ELSE f[n] + SumTo(f, n - 1)
TotalCalls == SumTo(calls, NumCallers)

\* A caller starts a call that begins with Do: Do itself in the test of the
\* guard, Token of the jwtTokenSource (line 190).
CallDo(p) ==
    /\ pc[p] = "idle"
    /\ TotalCalls < MaxCalls
    /\ calls' = [calls EXCEPT ![p] = @ + 1]
    /\ pc' = [pc EXCEPT ![p] = "do"]
    /\ ops' = [ops EXCEPT ![p] = NoOps]
    /\ UNCHANGED <<res, guardVars, guardObs>>
    /\ UNCHANGED <<jwtVars, cause, regCalls, saveCalls, attempt, signed,
                   cacheVars, cacheObs>>
    /\ UNCHANGED pinVars
    /\ UNCHANGED compVars

\* Do, lines 14-19: the fast path reads done without the lock.
DoEnter(p) ==
    /\ pc[p] = "do"
    /\ ranF' = [ranF EXCEPT ![p] = FALSE]
    /\ fOut' = [fOut EXCEPT ![p] = "none"]
    /\ err' = [err EXCEPT ![p] = "nil"]
    /\ IF ~done
         THEN pc' = [pc EXCEPT ![p] = "doSlow"]
         ELSE pc' = [pc EXCEPT ![p] = "doRet"]
    /\ UNCHANGED <<calls, res, done, lock, execs, succeeded, okAt, panicked>>
    /\ UNCHANGED outsideGuard
    /\ UNCHANGED pinVars
    /\ UNCHANGED compVars

\* Taking the lock without waiting for it to be free.
DoSlowLockNoWait(p) ==
    /\ pc[p] = "doSlow"
    /\ lock' = p
    /\ pc' = [pc EXCEPT ![p] = "locked"]
    /\ UNCHANGED <<calls, res, done, err, guardObs>>
    /\ UNCHANGED outsideGuard
    /\ UNCHANGED pinVars
    /\ UNCHANGED compVars

\* doSlow, line 22: o.lock.Lock()
DoSlowLock(p) ==
    /\ pc[p] = "doSlow"
    /\ lock = 0
    /\ lock' = p
    /\ pc' = [pc EXCEPT ![p] = "locked"]
    /\ UNCHANGED <<calls, res, done, err, guardObs>>
    /\ UNCHANGED outsideGuard
    /\ UNCHANGED pinVars
    /\ UNCHANGED compVars

\* The slow path without the second test of done: it runs f whenever it gets
\* the lock.
DoSlowCheckNoRetest(p) ==
    /\ pc[p] = "locked"
    /\ pc' = [pc EXCEPT ![p] = "f"]
    /\ ranF' = [ranF EXCEPT ![p] = TRUE]
    /\ execs' = execs + 1
    /\ UNCHANGED <<calls, res, done, lock, err, fOut, succeeded, okAt, panicked>>
    /\ UNCHANGED outsideGuard
    /\ UNCHANGED pinVars
    /\ UNCHANGED compVars

\* doSlow, line 24: the second test of done, under the lock.
DoSlowCheck(p) ==
    /\ pc[p] = "locked"
    /\ IF ~done
         THEN /\ pc' = [pc EXCEPT ![p] = "f"]
              /\ ranF' = [ranF EXCEPT ![p] = TRUE]
              /\ execs' = execs + 1
         ELSE /\ pc' = [pc EXCEPT ![p] = "unlock"]
              /\ UNCHANGED <<ranF, execs>>
    /\ UNCHANGED <<calls, res, done, lock, err, fOut, succeeded, okAt, panicked>>
    /\ UNCHANGED outsideGuard
    /\ UNCHANGED pinVars
    /\ UNCHANGED compVars

\* What sync.Once does: done is set whatever the outcome.
DoneRegardless(e) == TRUE

\* The value the deferred function of line 25 stores: err == nil.
\* A panic leaves the named result at its zero value, nil.
DoneAfter(e) == (e = "nil")

\* doSlow without the deferred store: done stays as it is.
DoSlowStoreNever(p) ==
    /\ pc[p] = "fdone"
    /\ pc' = [pc EXCEPT ![p] = "unlock"]
    /\ UNCHANGED <<calls, res, done, lock, err, guardObs>>
    /\ UNCHANGED outsideGuard
    /\ UNCHANGED pinVars
    /\ UNCHANGED compVars

\* doSlow, line 25: defer func() { o.done.Store(err == nil) }()
DoSlowStore(p) ==
    /\ pc[p] = "fdone"
    /\ done' = DoneAfter(err[p])
    /\ pc' = [pc EXCEPT ![p] = "unlock"]
    /\ UNCHANGED <<calls, res, lock, err, guardObs>>
    /\ UNCHANGED outsideGuard
    /\ UNCHANGED pinVars
    /\ UNCHANGED compVars

\* doSlow with the Unlock at its end and not deferred: a panic of f goes
\* past it.
DoSlowUnlockNotDeferred(p) ==
    /\ pc[p] = "unlock"
    /\ lock = p
    /\ lock' = IF fOut[p] = "panic" THEN lock ELSE 0
    /\ pc' = [pc EXCEPT ![p] = IF fOut[p] = "panic" THEN "doPanic" ELSE "doRet"]
    /\ UNCHANGED <<calls, res, done, err, guardObs>>
    /\ UNCHANGED outsideGuard
    /\ UNCHANGED pinVars
    /\ UNCHANGED compVars

\* doSlow, line 23: defer o.lock.Unlock(), then the return of Do (or the
\* panic going on to the caller).
DoSlowUnlock(p) ==
    /\ pc[p] = "unlock"
    /\ lock = p
    /\ lock' = 0
    /\ pc' = [pc EXCEPT ![p] = IF fOut[p] = "panic" THEN "doPanic" ELSE "doRet"]
    /\ UNCHANGED <<calls, res, done, err, guardObs>>
    /\ UNCHANGED outsideGuard
    /\ UNCHANGED pinVars
    /\ UNCHANGED compVars

Guard(p) == DoSlowLock(p) \/ DoSlowCheck(p) \/ DoSlowStore(p) \/ DoSlowUnlock(p)

(***************************************************************************)
(* The guard on its own, with an arbitrary guarded function: every         *)
(* execution returns nil, returns an error, or panics.                     *)
(***************************************************************************)

FOutcomes == {"ok", "err", "panic"}

\* line 26: err = f()
RunF(p, o) ==
    /\ pc[p] = "f"
    /\ fOut' = [fOut EXCEPT ![p] = o]
    /\ err' = [err EXCEPT ![p] = IF o = "err" THEN "err" ELSE "nil"]
    /\ succeeded' = (succeeded \/ o = "ok")
    /\ okAt' = IF okAt = 0 /\ o = "ok" THEN execs ELSE okAt
    /\ panicked' = (panicked \/ o = "panic")
    /\ pc' = [pc EXCEPT ![p] = "fdone"]
    /\ UNCHANGED <<calls, res, done, lock, ranF, execs>>
    /\ UNCHANGED outsideGuard
    /\ UNCHANGED pinVars
    /\ UNCHANGED compVars

\* The caller of Do gets its result.
DoReturn(p) ==
    /\ pc[p] \in {"doRet", "doPanic"}
    /\ res' = [res EXCEPT ![p] = IF pc[p] = "doPanic" THEN "panic" ELSE err[p]]
    /\ pc' = [pc EXCEPT ![p] = "idle"]
    /\ UNCHANGED <<calls, guardVars, guardObs>>
    /\ UNCHANGED outsideGuard
    /\ UNCHANGED pinVars
    /\ UNCHANGED compVars

\* RegisterWithPIN not called.
PinAtRest ==
    /\ pinPc = "start"
    /\ pinCtx = "live"
    /\ pinConfirmed = FALSE
    /\ pinTimer = FALSE
    /\ pinRes = "none"
    /\ pinPolls = 0
    /\ pinCb = 0

\* The file of the Vault: absent, or with some text in it.  A text is
\* stood for by what Load makes of it: nothing (an empty file, as a write
\* that has truncated it leaves it), something that is not JSON, an object
\* without a version, a record of a version other than 1, or a record:
\* its salt and its data - nonce, encrypted bytes and authentication tag.
NoData == [nonce |-> 0, c |-> <<>>, tag |-> <<>>]
FileOf(kind) == [kind |-> kind, salt |-> 0, data |-> NoData]
AbsentFile == FileOf("absent")
RecordFile(salt, data) == [kind |-> "record", salt |-> salt, data |-> data]

\* What a Load or a Save returned: the error ("nil" when none), the payload
\* of a Load that had one, whether the call read the file, derived a key,
\* read a file that a Save had truncated and not yet written, and how many
\* contents the Vault has had while a Load went on.
NoVRes == [op |-> "none", err |-> "none", val |-> <<>>,
           read |-> FALSE, derived |-> FALSE, partial |-> FALSE, seen |-> 0]

\* The goroutines that call the Vault.
VCallers == {1, 2}

\* The passphrases a Vault is opened with.
Passphrases == {"my-passphrase", "invalid-passphrase"}

\* No Vault call made: the file absent, nothing cached.
VaultAtRest ==
    /\ vFile = AbsentFile
    /\ vContent = <<>>
    /\ vPassphrase = "my-passphrase"
    /\ vLock = 0
    /\ vPc = [p \in VCallers |-> "idle"]
    /\ vArg = [p \in VCallers |-> <<>>]
    /\ vRec = [p \in VCallers |-> AbsentFile]
    /\ vRes = NoVRes
    /\ vOrigin = <<>>
    /\ vSeen = [p \in VCallers |-> {}]
    /\ vCalls = 0
    /\ vOpens = 0

\* A token as a text: its length, and the claims it carries when it is a
\* JWT (none when it is not one): exp, <<>> in a JWT without expiry, and iat.
PlainToken(n) == [len |-> n, claims |-> <<>>]
JWTText(e, i) == [len |-> 40, claims |-> <<[exp |-> e, iat |-> i]>>]
NoToken == PlainToken(0)
LegacyToken == PlainToken(20)

\* What a call of IsValid or of a Config method came to.
NoCfgOut == [op |-> "none", tok |-> NoToken, at |-> 0, valid |-> FALSE,
             err |-> "none", sent |-> 0]

\* No such call made.
CfgAtRest == cfgOut = NoCfgOut

\* What a Token call of the pmsTokenSource came to: the error ("nil" when
\* none), the token (0 when none), what the upstream source gave, the calls
\* of the upstream source and the directory requests it made, and the token
\* of the call before it.
NoPmsOut == [err |-> "none", tok |-> 0, up |-> "none", inner |-> 0, reqs |-> 0,
             prev |-> 0]

\* No pmsTokenSource in use.
PmsAtRest ==
    /\ pmsPc = "idle"
    /\ pmsDir = <<>>
    /\ pmsName = ""
    /\ pmsTok = <<>>
    /\ pmsOut = NoPmsOut

\* The goroutines that call the media server client's token source.
MCallers == {1, 2}
NoLoc == [err |-> "none", tok |-> 0]

\* No call made on that token source.
MtsAtRest ==
    /\ mToken = <<>>
    /\ mFlight = 0
    /\ mWaiters = {}
    /\ mPc = [p \in MCallers |-> "idle"]
    /\ mLoc = [p \in MCallers |-> NoLoc]
    /\ mDir = 0
    /\ mOps = [p \in MCallers |-> 0]
    /\ mFirst = <<>>
    /\ mLater = [p \in MCallers |-> FALSE]
    /\ mCalls = 0

\* The components modelled on their own, not in use.
\* The goroutines that call Token with a context of their own.
WCallers == {1, 2}

\* No call with a context under way.
WaitAtRest ==
    /\ wPc = [p \in WCallers |-> "idle"]
    /\ wCtx = [p \in WCallers |-> "live"]
    /\ wAt = [p \in WCallers |-> "none"]
    /\ wLock = 0
    /\ wToken = FALSE
    /\ wRes = [p \in WCallers |-> "none"]
    /\ wCalls = 0

CompAtRest ==
    VaultAtRest /\ CfgAtRest /\ PmsAtRest /\ MtsAtRest /\ WaitAtRest

\* The callers of the token sources and the guard, before any call.
CallersAtRest ==
    /\ pc = [p \in Procs |-> "idle"]
    /\ calls = [p \in Procs |-> 0]
    /\ res = [p \in Procs |-> "none"]
    /\ done = FALSE
    /\ lock = 0
    /\ err = [p \in Procs |-> "nil"]
    /\ ranF = [p \in Procs |-> FALSE]
    /\ fOut = [p \in Procs |-> "none"]
    /\ execs = 0
    /\ succeeded = FALSE
    /\ okAt = 0
    /\ panicked = FALSE

InitCommon == CallersAtRest /\ PinAtRest /\ CompAtRest

\* The device-bound flow at rest: what its variables hold while only the
\* guard is exercised.
JwtAtRest ==
    /\ store = <<>>
    /\ secureData = ZeroData
    /\ hasRegistrar = FALSE
    /\ token = "none"
    /\ keys = 0
    /\ uploaded = {}
    /\ signKey = [p \in Procs |-> <<0, 0>>]
    /\ cause = "none"
    /\ regCalls = 0
    /\ saveCalls = 0
    /\ attempt = NoAttempt
    /\ signed = {}
    /\ ops = [p \in Procs |-> NoOps]

\* The same for the caching source.
CacheAtRest ==
    /\ cToken = <<>>
    /\ cLock = 0
    /\ cHasSource = FALSE
    /\ usePMS = FALSE
    /\ now = 0
    /\ log = <<>>
    /\ cT0 = [p \in Procs |-> 0]
    /\ cStart = [p \in Procs |-> 0]
    /\ cChk = [p \in Procs |-> 0]
    /\ cSaw = [p \in Procs |-> FALSE]
    /\ cUsed = [p \in Procs |-> 0]
    /\ cRes = [p \in Procs |-> NoResult]

InitGuard == InitCommon /\ JwtAtRest /\ CacheAtRest

\* Every token source and the PIN flow at rest.
TokenSourcesAtRest == CallersAtRest /\ JwtAtRest /\ CacheAtRest /\ PinAtRest

NextGuard ==
    \E p \in Procs :
        \/ CallDo(p)
        \/ DoEnter(p)
        \/ DoSlowLock(p)
        \/ DoSlowCheck(p)
        \/ \E o \in FOutcomes : RunF(p, o)
        \/ DoSlowStore(p)
        \/ DoSlowUnlock(p)
        \/ DoReturn(p)

SpecGuard == InitGuard /\ [][NextGuard]_vars

(***************************************************************************)
(* Claims about the guard (checked under SpecGuard)                        *)
(***************************************************************************)

\* The caller's call of Do finishes in this step.
Returns(p) == pc[p] \in {"doRet", "doPanic"} /\ pc'[p] = "idle"

\* C1: once an execution of the guarded function has returned nil, no call
\* of Do - later or still under way - starts another execution, and every
\* call that finishes from then on returns nil, the one exception being a
\* caller handing back the error of its own execution, which ended before
\* the successful one began.
C1_SucceedOnce ==
    [][succeeded =>
          /\ execs' = execs
          /\ \A p \in Procs :
                (Returns(p) /\ fOut[p] # "err") => res'[p] = "nil"]_vars

\* C1 witness: after a failed and then a successful execution, a caller that
\* did not run the guarded function has returned nil.
C1_Witness ==
    /\ succeeded
    /\ execs >= 2
    /\ \E p \in Procs :
          pc[p] = "idle" /\ calls[p] > 0 /\ ~ranF[p] /\ res[p] = "nil"

\* C2: an execution that returns an error leaves done false and its error is
\* what Do returns to the caller that ran it; done is set only by a
\* successful (or panicking) execution, so while every execution so far has
\* returned an error each call of Do runs the guarded function itself, and
\* no call returns an error it did not get from its own execution.
C2_FailureNotSticky ==
    /\ done => (succeeded \/ panicked)
    /\ \A p \in Procs :
          /\ (pc[p] = "unlock" /\ fOut[p] = "err") => ~done
          /\ (pc[p] = "idle" /\ calls[p] > 0) =>
                /\ fOut[p] = "err" => res[p] = "err"
                /\ res[p] = "err" => (ranF[p] /\ fOut[p] = "err")
                /\ ~ranF[p] => (succeeded \/ panicked)

\* C2 witness: two executions have failed, none has succeeded or panicked,
\* and a caller has got the error of its own execution.
C2_Witness ==
    /\ execs >= 2
    /\ ~succeeded /\ ~panicked /\ ~done
    /\ \E p \in Procs : pc[p] = "idle" /\ res[p] = "err" /\ ranF[p]

\* Every call of Do made so far has finished.
AllReturned == \A p \in Procs : pc[p] = "idle"

\* The executions of the guarded function so far are those of a function
\* that returns an error k-1 times and nil the k-th time.
FailsUntil(k) ==
    /\ ~panicked
    /\ IF execs >= k THEN okAt = k ELSE okAt = 0

\* C31: when at least k calls of Do have been made on one guard, by callers
\* running side by side, and the guarded function fails in its first k-1
\* executions and succeeds in the k-th, then once the calls are over the
\* guarded function has been executed k times, no more and no fewer.
C31_ExactlyKExecutions ==
    \A k \in 1..MaxCalls :
        (AllReturned /\ TotalCalls >= k /\ FailsUntil(k)) => execs = k

\* C31 witness: three calls by two callers are over, the first execution
\* failed and the second succeeded, and there was no third.
C31_Witness ==
    /\ AllReturned
    /\ TotalCalls = 3
    /\ \A p \in Procs : p <= 2 => calls[p] > 0
    /\ okAt = 2
    /\ execs = 2
    /\ ~panicked

\* C32: when the guarded function panics inside Do the panic goes on to the
\* caller of Do, the lock of the guard is free again when it does, and no
\* call of Do executes the guarded function after it: a call made later
\* returns nil without an execution.
C32_PanicMarksDone ==
    [][/\ panicked => execs' = execs
       /\ \A p \in Procs :
             /\ (Returns(p) /\ fOut[p] = "panic") =>
                   res'[p] = "panic" /\ lock # p
             /\ (Returns(p) /\ panicked /\ fOut[p] # "panic"
                    /\ fOut[p] # "err") =>
                   res'[p] = "nil"]_vars

\* C32 witness: the only execution panicked, its caller has had the panic,
\* the lock is free, and a call made after it has returned nil without an
\* execution.
C32_Witness ==
    /\ panicked
    /\ execs = 1
    /\ lock = 0
    /\ \E p, q \in Procs :
          /\ pc[p] = "idle" /\ res[p] = "panic" /\ fOut[p] = "panic"
          /\ pc[q] = "idle" /\ calls[q] > 0 /\ ~ranF[q] /\ res[q] = "nil"
(***************************************************************************)
(* jwtTokenSource (plextv): Token = init.Do(initialize), then JWTToken.     *)
(* The data store, the registrar and the auth service are collaborators;   *)
(* each call to one of them succeeds or fails as the environment decides.  *)
(***************************************************************************)

\* Load of the caller-supplied store (fakeVault in the tests, the vault
\* file in production): no record gives os.ErrNotExist; ioOK is whether
\* reading a record that is there succeeds.
VaultLoad(ioOK) ==
    IF store = <<>> THEN [data |-> ZeroData, err |-> "ErrNotExist"]
    ELSE IF ~ioOK THEN [data |-> ZeroData, err |-> "loadFailed"]
    ELSE [data |-> store[1], err |-> "nil"]

\* Load without the comparison of client IDs.
LoadNoClientCheck(ioOK) ==
    LET v == VaultLoad(ioOK) IN
      IF v.err # "nil" THEN [data |-> ZeroData, err |-> v.err]
      ELSE [data |-> v.data, err |-> "nil"]

\* jwtDataStore.Load, lines 272-281: a vault error is returned as it is with
\* the zero record; a record of another client comes back with
\* ErrInvalidClientID.
Load(ioOK) ==
    LET v == VaultLoad(ioOK) IN
      IF v.err # "nil" THEN [data |-> ZeroData, err |-> v.err]
      ELSE IF v.data.ClientID # ClientID
             THEN [data |-> v.data, err |-> "ErrInvalidClientID"]
             ELSE [data |-> v.data, err |-> "nil"]

\* The caller's call attempts the operation name, which fails or not.
Op(p, name, fail) ==
    [ops EXCEPT ![p] = [@ EXCEPT ![name] = @ + 1, !.failed = fail]]

\* initialize returns e: the guard's f has ended.
InitReturn(p, e, c) ==
    /\ err' = [err EXCEPT ![p] = e]
    /\ fOut' = [fOut EXCEPT ![p] = IF e = "nil" THEN "ok" ELSE "err"]
    /\ succeeded' = (succeeded \/ e = "nil")
    /\ okAt' = IF okAt = 0 /\ e = "nil" THEN execs ELSE okAt
    /\ cause' = c
    /\ pc' = [pc EXCEPT ![p] = "fdone"]

\* initialize without the test of lines 222-224: it goes on to the registrar
\* whether there is one or not.
InitLoadNoRegistrarTest(p, ioOK) ==
    /\ pc[p] = "f"
    /\ LET r == Load(ioOK) IN
         /\ secureData' = r.data
         /\ attempt' = [NoAttempt EXCEPT !.store0 = store, !.saves0 = saveCalls,
                                        !.regs0 = regCalls, !.keys0 = keys,
                                        !.vaultErr = VaultLoad(ioOK).err,
                                        !.loadErr = r.err, !.loadData = r.data]
         /\ IF r.err = "nil"
              THEN InitReturn(p, "nil", "loaded")
              ELSE IF r.err \in {"ErrInvalidClientID", "ErrNotExist"}
                THEN /\ pc' = [pc EXCEPT ![p] = "registrar"]
                     /\ UNCHANGED <<err, fOut, succeeded, okAt, cause>>
                ELSE InitReturn(p, "load token data: " \o r.err, "load")
    /\ ops' = [Op(p, "load", Load(ioOK).err = "loadFailed") EXCEPT
                  ![p].loadErr = Load(ioOK).err]
    /\ UNCHANGED <<calls, res, done, lock, ranF, execs, panicked,
                   store, hasRegistrar, token, keys, uploaded, signKey,
                   regCalls, saveCalls, signed>>
    /\ UNCHANGED <<cacheVars, cacheObs>>
    /\ UNCHANGED pinVars
    /\ UNCHANGED compVars

\* initialize without the early return of line 207: a record that loads
\* without error is registered anew all the same.
InitLoadAlwaysRegisters(p, ioOK) ==
    /\ pc[p] = "f"
    /\ LET r == Load(ioOK) IN
         /\ secureData' = r.data
         /\ attempt' = [NoAttempt EXCEPT !.store0 = store, !.saves0 = saveCalls,
                                        !.regs0 = regCalls, !.keys0 = keys,
                                        !.vaultErr = VaultLoad(ioOK).err,
                                        !.loadErr = r.err, !.loadData = r.data]
         /\ IF r.err \in {"nil", "ErrInvalidClientID", "ErrNotExist"}
              THEN IF ~hasRegistrar
                     THEN InitReturn(p, "ErrNoTokenSource", "noRegistrar")
                     ELSE /\ pc' = [pc EXCEPT ![p] = "registrar"]
                          /\ UNCHANGED <<err, fOut, succeeded, okAt, cause>>
              ELSE InitReturn(p, "load token data: " \o r.err, "load")
    /\ ops' = [Op(p, "load", Load(ioOK).err = "loadFailed") EXCEPT
                  ![p].loadErr = Load(ioOK).err]
    /\ UNCHANGED <<calls, res, done, lock, ranF, execs, panicked,
                   store, hasRegistrar, token, keys, uploaded, signKey,
                   regCalls, saveCalls, signed>>
    /\ UNCHANGED <<cacheVars, cacheObs>>
    /\ UNCHANGED pinVars
    /\ UNCHANGED compVars

\* initialize taking every error of Load for a record that is not there.
InitLoadAnyErrorRegisters(p, ioOK) ==
    /\ pc[p] = "f"
    /\ LET r == Load(ioOK) IN
         /\ secureData' = r.data
         /\ attempt' = [NoAttempt EXCEPT !.store0 = store, !.saves0 = saveCalls,
                                        !.regs0 = regCalls, !.keys0 = keys,
                                        !.vaultErr = VaultLoad(ioOK).err,
                                        !.loadErr = r.err, !.loadData = r.data]
         /\ IF r.err = "nil"
              THEN InitReturn(p, "nil", "loaded")
              ELSE IF ~hasRegistrar
                     THEN InitReturn(p, "ErrNoTokenSource", "noRegistrar")
                     ELSE /\ pc' = [pc EXCEPT ![p] = "registrar"]
                          /\ UNCHANGED <<err, fOut, succeeded, okAt, cause>>
    /\ ops' = [Op(p, "load", Load(ioOK).err = "loadFailed") EXCEPT
                  ![p].loadErr = Load(ioOK).err]
    /\ UNCHANGED <<calls, res, done, lock, ranF, execs, panicked,
                   store, hasRegistrar, token, keys, uploaded, signKey,
                   regCalls, saveCalls, signed>>
    /\ UNCHANGED <<cacheVars, cacheObs>>
    /\ UNCHANGED pinVars
    /\ UNCHANGED compVars

\* initialize, lines 203-224: load the record, dispatch on the error, and
\* test the registrar.
InitLoad(p, ioOK) ==
    /\ pc[p] = "f"
    /\ LET r == Load(ioOK) IN
         /\ secureData' = r.data
         /\ attempt' = [NoAttempt EXCEPT !.store0 = store, !.saves0 = saveCalls,
                                        !.regs0 = regCalls, !.keys0 = keys,
                                        !.vaultErr = VaultLoad(ioOK).err,
                                        !.loadErr = r.err, !.loadData = r.data]
         /\ IF r.err = "nil"
              THEN InitReturn(p, "nil", "loaded")
              ELSE IF r.err \in {"ErrInvalidClientID", "ErrNotExist"}
                THEN IF ~hasRegistrar
                       THEN InitReturn(p, "ErrNoTokenSource", "noRegistrar")
                       ELSE /\ pc' = [pc EXCEPT ![p] = "registrar"]
                            /\ UNCHANGED <<err, fOut, succeeded, okAt, cause>>
                ELSE InitReturn(p, "load token data: " \o r.err, "load")
    /\ ops' = [Op(p, "load", Load(ioOK).err = "loadFailed") EXCEPT
                  ![p].loadErr = Load(ioOK).err]
    /\ UNCHANGED <<calls, res, done, lock, ranF, execs, panicked,
                   store, hasRegistrar, token, keys, uploaded, signKey,
                   regCalls, saveCalls, signed>>
    /\ UNCHANGED <<cacheVars, cacheObs>>
    /\ UNCHANGED pinVars
    /\ UNCHANGED compVars

\* initialize, lines 226-230: the registrar returns a token (which the auth
\* service may or may not have made a valid one) or an error.
InitRegistrar(p, o) ==
    /\ pc[p] = "registrar"
    /\ regCalls' = regCalls + 1
    /\ IF o = "err"
         THEN /\ InitReturn(p, "registrar", "registrar")
              /\ UNCHANGED <<token, attempt>>
         ELSE /\ token' = o
              /\ attempt' = [attempt EXCEPT !.regOK = TRUE]
              /\ pc' = [pc EXCEPT ![p] = "upload"]
              /\ UNCHANGED <<err, fOut, succeeded, okAt, cause>>
    /\ ops' = Op(p, "reg", o = "err")
    /\ UNCHANGED <<calls, res, done, lock, ranF, execs, panicked,
                   store, secureData, hasRegistrar, keys, uploaded, signKey,
                   saveCalls, signed>>
    /\ UNCHANGED <<cacheVars, cacheObs>>
    /\ UNCHANGED pinVars
    /\ UNCHANGED compVars

\* initialize, line 227: the registrar is code of the caller (a PIN
\* registrar runs the caller's callback) and may panic; the panic leaves
\* initialize with its named result still nil and secureData as Load left it.
InitRegistrarPanic(p) ==
    /\ pc[p] = "registrar"
    /\ regCalls' = regCalls + 1
    /\ fOut' = [fOut EXCEPT ![p] = "panic"]
    /\ panicked' = TRUE
    /\ cause' = "panic"
    /\ pc' = [pc EXCEPT ![p] = "fdone"]
    /\ ops' = Op(p, "reg", FALSE)
    /\ UNCHANGED <<calls, res, done, lock, err, ranF, execs, succeeded, okAt,
                   jwtVars, saveCalls, attempt, signed>>
    /\ UNCHANGED <<cacheVars, cacheObs>>
    /\ UNCHANGED pinVars
    /\ UNCHANGED compVars

\* The key upload with its error dropped: initialize goes on to the save.
InitUploadNoErrCheck(p, srvOK) ==
    /\ pc[p] = "upload"
    /\ LET k == keys + 1
           ok == token = "valid" /\ srvOK
       IN
         /\ keys' = k
         /\ uploaded' = IF ok THEN uploaded \cup {k} ELSE uploaded
         /\ secureData' = [ClientID |-> ClientID, PrivateKey |-> k,
                           KeyID |-> IF ok THEN k ELSE 0]
         /\ attempt' = [attempt EXCEPT !.upOK = ok]
         /\ pc' = [pc EXCEPT ![p] = "save"]
         /\ UNCHANGED <<err, fOut, succeeded, okAt, cause>>
    /\ ops' = Op(p, "upload", ~(token = "valid" /\ srvOK))
    /\ UNCHANGED <<calls, res, done, lock, ranF, execs, panicked,
                   store, hasRegistrar, token, signKey,
                   regCalls, saveCalls, signed>>
    /\ UNCHANGED <<cacheVars, cacheObs>>
    /\ UNCHANGED pinVars
    /\ UNCHANGED compVars

\* The key upload without line 233: secureData keeps the client ID of the
\* record that was loaded.
InitUploadKeepsClientID(p, srvOK) ==
    /\ pc[p] = "upload"
    /\ LET k == keys + 1
           ok == token = "valid" /\ srvOK
       IN
         /\ keys' = k
         /\ uploaded' = IF ok THEN uploaded \cup {k} ELSE uploaded
         /\ secureData' = [secureData EXCEPT !.PrivateKey = k,
                                             !.KeyID = IF ok THEN k ELSE 0]
         /\ IF ok
              THEN /\ attempt' = [attempt EXCEPT !.upOK = TRUE]
                   /\ pc' = [pc EXCEPT ![p] = "save"]
                   /\ UNCHANGED <<err, fOut, succeeded, okAt, cause>>
              ELSE /\ InitReturn(p, "publish key", "upload")
                   /\ UNCHANGED attempt
    /\ ops' = Op(p, "upload", ~(token = "valid" /\ srvOK))
    /\ UNCHANGED <<calls, res, done, lock, ranF, execs, panicked,
                   store, hasRegistrar, token, signKey,
                   regCalls, saveCalls, signed>>
    /\ UNCHANGED <<cacheVars, cacheObs>>
    /\ UNCHANGED pinVars
    /\ UNCHANGED compVars

\* initialize trying the upload of the key a second time when the first
\* attempt fails.
InitUploadRetries(p, srvOK) ==
    /\ pc[p] = "upload"
    /\ LET k == keys + 1
           ok == token = "valid" /\ srvOK
       IN
         /\ keys' = k
         /\ uploaded' = IF ok THEN uploaded \cup {k} ELSE uploaded
         /\ secureData' = [ClientID |-> ClientID, PrivateKey |-> k,
                           KeyID |-> IF ok THEN k ELSE 0]
         /\ IF ok
              THEN /\ attempt' = [attempt EXCEPT !.upOK = TRUE]
                   /\ pc' = [pc EXCEPT ![p] = "save"]
                   /\ UNCHANGED <<err, fOut, succeeded, okAt, cause>>
              ELSE IF ops[p].upload = 0
                THEN UNCHANGED <<pc, err, fOut, succeeded, okAt, cause, attempt>>
                ELSE /\ InitReturn(p, "publish key", "upload")
                     /\ UNCHANGED attempt
    /\ ops' = Op(p, "upload", ~(token = "valid" /\ srvOK))
    /\ UNCHANGED <<calls, res, done, lock, ranF, execs, panicked,
                   store, hasRegistrar, token, signKey,
                   regCalls, saveCalls, signed>>
    /\ UNCHANGED <<cacheVars, cacheObs>>
    /\ UNCHANGED pinVars
    /\ UNCHANGED compVars

\* initialize, lines 234-237, with GenerateAndUploadPublicKey and
\* UploadPublicKey: the three fields of secureData are assigned before the
\* error is looked at; an invalid token is refused without a request.
InitUpload(p, srvOK) ==
    /\ pc[p] = "upload"
    /\ LET k == keys + 1
           ok == token = "valid" /\ srvOK
       IN
         /\ keys' = k
         /\ uploaded' = IF ok THEN uploaded \cup {k} ELSE uploaded
         /\ secureData' = [ClientID |-> ClientID, PrivateKey |-> k,
                           KeyID |-> IF ok THEN k ELSE 0]
         /\ IF ok
              THEN /\ attempt' = [attempt EXCEPT !.upOK = TRUE]
                   /\ pc' = [pc EXCEPT ![p] = "save"]
                   /\ UNCHANGED <<err, fOut, succeeded, okAt, cause>>
              ELSE /\ InitReturn(p, "publish key", "upload")
                   /\ UNCHANGED attempt
    /\ ops' = Op(p, "upload", ~(token = "valid" /\ srvOK))
    /\ UNCHANGED <<calls, res, done, lock, ranF, execs, panicked,
                   store, hasRegistrar, token, signKey,
                   regCalls, saveCalls, signed>>
    /\ UNCHANGED <<cacheVars, cacheObs>>
    /\ UNCHANGED pinVars
    /\ UNCHANGED compVars

\* initialize, lines 241-246: save the record.
InitSave(p, ioOK) ==
    /\ pc[p] = "save"
    /\ saveCalls' = saveCalls + 1
    /\ IF ioOK
         THEN /\ store' = <<secureData>>
              /\ attempt' = [attempt EXCEPT !.saved = TRUE]
              /\ InitReturn(p, "nil", "saved")
         ELSE /\ InitReturn(p, "save token data", "save")
              /\ UNCHANGED <<store, attempt>>
    /\ ops' = Op(p, "save", ~ioOK)
    /\ UNCHANGED <<calls, res, done, lock, ranF, execs, panicked,
                   secureData, hasRegistrar, token, keys, uploaded, signKey,
                   regCalls, signed>>
    /\ UNCHANGED <<cacheVars, cacheObs>>
    /\ UNCHANGED pinVars
    /\ UNCHANGED compVars

\* A chain of sources in which the jwtTokenSource sits right below the
\* cachingTokenSource, whatever the options.
BackToCache(p) ==
    IF cLock # p THEN "idle" ELSE "cRet"

\* Where a Token call of the jwtTokenSource returns to: the program, when it
\* called the source itself; else the source that called it while it held
\* the cache's lock - the pmsTokenSource or the cachingTokenSource.
BackTo(p) ==
    IF cLock # p THEN "idle" ELSE IF usePMS THEN "pmsRet" ELSE "cRet"

\* Token, lines 190-193: Do has returned; on an error Token returns it, else
\* it calls JWTToken with the key and key ID secureData holds now.
TokenAfterInit(p) ==
    /\ pc[p] = "doRet"
    /\ IF err[p] # "nil"
         THEN /\ res' = [res EXCEPT ![p] = "init: " \o err[p]]
              /\ pc' = [pc EXCEPT ![p] = BackTo(p)]
              /\ UNCHANGED signKey
         ELSE /\ signKey' = [signKey EXCEPT ![p] =
                                <<secureData.PrivateKey, secureData.KeyID>>]
              /\ pc' = [pc EXCEPT ![p] = "nonce"]
              /\ UNCHANGED res
    /\ UNCHANGED <<calls, guardVars, guardObs,
                   store, secureData, hasRegistrar, token, keys, uploaded,
                   jwtObs>>
    /\ UNCHANGED <<cacheVars, cacheObs>>
    /\ UNCHANGED pinVars
    /\ UNCHANGED compVars

\* Token, line 190: a panic of initialize goes through Do and Token to the
\* caller.
TokenPanic(p) ==
    /\ pc[p] = "doPanic"
    /\ res' = [res EXCEPT ![p] = "panic"]
    /\ pc' = [pc EXCEPT ![p] = BackTo(p)]
    /\ UNCHANGED <<calls, guardVars, guardObs, jwtVars, jwtObs>>
    /\ UNCHANGED <<cacheVars, cacheObs>>
    /\ UNCHANGED pinVars
    /\ UNCHANGED compVars

\* JWTToken going on to sign and to the exchange whatever the request for the
\* nonce returned.
JWTTokenNonceErrIgnored(p, srvOK) ==
    /\ pc[p] = "nonce"
    /\ signed' = signed \cup {signKey[p]}
    /\ pc' = [pc EXCEPT ![p] = "exchange"]
    /\ UNCHANGED res
    /\ ops' = Op(p, "nonce", ~srvOK)
    /\ UNCHANGED <<calls, guardVars, guardObs, jwtVars,
                   cause, regCalls, saveCalls, attempt>>
    /\ UNCHANGED <<cacheVars, cacheObs>>
    /\ UNCHANGED pinVars
    /\ UNCHANGED compVars

\* JWTToken: fetch a nonce, then sign the claims with the private key and
\* put the key ID in the header.
JWTTokenNonce(p, srvOK) ==
    /\ pc[p] = "nonce"
    /\ IF srvOK
         THEN /\ signed' = signed \cup {signKey[p]}
              /\ pc' = [pc EXCEPT ![p] = "exchange"]
              /\ UNCHANGED res
         ELSE /\ res' = [res EXCEPT ![p] = "get nonce"]
              /\ pc' = [pc EXCEPT ![p] = BackTo(p)]
              /\ UNCHANGED signed
    /\ ops' = Op(p, "nonce", ~srvOK)
    /\ UNCHANGED <<calls, guardVars, guardObs, jwtVars,
                   cause, regCalls, saveCalls, attempt>>
    /\ UNCHANGED <<cacheVars, cacheObs>>
    /\ UNCHANGED pinVars
    /\ UNCHANGED compVars

\* JWTToken / jwtToken: exchange the signed assertion for a token.
JWTTokenExchange(p, srvOK) ==
    /\ pc[p] = "exchange"
    /\ res' = [res EXCEPT ![p] = IF srvOK THEN "token" ELSE "exchange"]
    /\ pc' = [pc EXCEPT ![p] = BackTo(p)]
    /\ ops' = Op(p, "exch", ~srvOK)
    /\ UNCHANGED <<calls, guardVars, guardObs, jwtVars,
                   cause, regCalls, saveCalls, attempt, signed>>
    /\ UNCHANGED <<cacheVars, cacheObs>>
    /\ UNCHANGED pinVars
    /\ UNCHANGED compVars

\* A data store that is empty, holds this client's record, or holds a record
\* written under another client ID; a source with or without a registrar.
InitJWT ==
    /\ InitCommon
    /\ store \in {<<>>,
                  <<[ClientID |-> ClientID, PrivateKey |-> 1, KeyID |-> 1]>>,
                  <<[ClientID |-> OtherClientID, PrivateKey |-> 1, KeyID |-> 1]>>}
    /\ secureData = ZeroData
    /\ hasRegistrar \in BOOLEAN
    /\ token = "none"
    /\ keys = 1
    /\ uploaded = {}
    /\ signKey = [p \in Procs |-> <<0, 0>>]
    /\ cause = "none"
    /\ regCalls = 0
    /\ saveCalls = 0
    /\ attempt = NoAttempt
    /\ signed = {}
    /\ ops = [p \in Procs |-> NoOps]
    /\ CacheAtRest

NextJWT ==
    \E p \in Procs :
        \/ CallDo(p)
        \/ DoEnter(p)
        \/ DoSlowLock(p)
        \/ DoSlowCheck(p)
        \/ DoSlowStore(p)
        \/ DoSlowUnlock(p)
        \/ \E ioOK \in BOOLEAN : InitLoad(p, ioOK)
        \/ \E o \in {"valid", "invalid", "err"} : InitRegistrar(p, o)
        \/ InitRegistrarPanic(p)
        \/ \E srvOK \in BOOLEAN : InitUpload(p, srvOK)
        \/ \E ioOK \in BOOLEAN : InitSave(p, ioOK)
        \/ TokenAfterInit(p)
        \/ TokenPanic(p)
        \/ \E srvOK \in BOOLEAN : JWTTokenNonce(p, srvOK)
        \/ \E srvOK \in BOOLEAN : JWTTokenExchange(p, srvOK)

SpecJWT == InitJWT /\ [][NextJWT]_vars

\* Callers inside initialize.
InSetup == {p \in Procs : pc[p] \in {"f", "registrar", "upload", "save"}}

\* C3: at most one execution of the one-time setup (load, registrar, key
\* generation and upload, save) is under way at any time, however many
\* callers are in Token.
C3_OneSetupAtATime == Cardinality(InSetup) <= 1

\* C3 witness: one caller is in the middle of the setup, waiting for the
\* upload, while another caller of Token is held at the guard's lock.
C3_Witness ==
    \E p, q \in Procs : pc[p] = "upload" /\ pc[q] = "doSlow"

\* C4: over all Token calls on one source, at most one public key is
\* accepted by the auth service.
C4_OneUpload == Cardinality(uploaded) <= 1

\* An execution of initialize returns in this step.
InitEnds(p) == pc[p] \in {"f", "registrar", "upload", "save"} /\ pc'[p] = "fdone"

\* C10: the store's Save is called, and the stored record changes, only in
\* an execution of initialize whose registrar call and, after it, key upload
\* have both succeeded; an execution that ends on a failed registrar call or
\* a failed upload has called Save not once and leaves the stored record as
\* it found it.
C10_SaveOnlyAfterUpload ==
    [][/\ (saveCalls' # saveCalls \/ store' # store) =>
             (attempt.regOK /\ attempt.upOK)
       /\ attempt'.upOK => attempt'.regOK
       /\ \A p \in Procs :
             (InitEnds(p) /\ cause' \in {"registrar", "upload"}) =>
                 /\ store' = attempt'.store0
                 /\ saveCalls' = attempt'.saves0
                 /\ ~attempt'.saved]_vars

\* C10 witness: a first execution generated a key and ended without a Save
\* (its upload failed, over a record of another client), and the next one
\* uploaded its key and saved the record.
C10_Witness ==
    /\ attempt.saved /\ attempt.regOK /\ attempt.upOK
    /\ saveCalls = 1
    /\ keys >= 3
    /\ store = <<secureData>>
    /\ attempt.store0 # <<>>

\* The private key and key ID of a record.
KeyOf(d) == <<d.PrivateKey, d.KeyID>>

\* C11: an execution of initialize whose Load returns a record of the
\* configured client ID ends there with nil - it calls no registrar,
\* generates and uploads no key, calls no Save and leaves the stored record
\* as it is - and every assertion signed from then on is signed with the
\* private key and key ID of the loaded record.
C11_LoadedRecordUsed ==
    /\ (attempt.loadErr = "nil") <=> (cause = "loaded")
    /\ cause = "loaded" =>
          /\ attempt.store0 # <<>>
          /\ attempt.loadData = attempt.store0[1]
          /\ attempt.loadData.ClientID = ClientID
          /\ secureData = attempt.loadData
          /\ regCalls = attempt.regs0
          /\ keys = attempt.keys0
          /\ saveCalls = attempt.saves0
          /\ store = attempt.store0
          /\ ~attempt.regOK /\ ~attempt.upOK /\ ~attempt.saved
          /\ \A p \in Procs :
                pc[p] \in {"nonce", "exchange"} =>
                    signKey[p] = KeyOf(attempt.loadData)
          /\ signed \subseteq {KeyOf(attempt.loadData)}

\* C11 witness: after a Load that failed, the next execution loaded this
\* client's record, and a token has been minted with its key.
C11_Witness ==
    /\ cause = "loaded" /\ execs >= 2
    /\ signed = {KeyOf(attempt.loadData)}
    /\ \E p \in Procs : pc[p] = "idle" /\ res[p] = "token"

\* The caller's execution of initialize gets the result of Load in this step.
Loads(p) == pc[p] = "f" /\ pc'[p] # "f"

\* C12: a loaded record of another client ID does not end initialize: with
\* a registrar it goes on to the registrar (without one it ends on the
\* missing registrar), and when the registrar call, the upload of a new key
\* and the Save have succeeded the store holds, in place of the stale
\* record, a record with the configured client ID and the new key.
C12_ForeignRecordReplaced ==
    [][/\ \A p \in Procs :
             (Loads(p) /\ attempt'.loadErr = "ErrInvalidClientID") =>
                 /\ hasRegistrar => pc'[p] = "registrar"
                 /\ ~hasRegistrar =>
                       (pc'[p] = "fdone" /\ err'[p] = "ErrNoTokenSource")
       /\ (attempt'.saved /\ attempt'.loadErr = "ErrInvalidClientID") =>
             /\ attempt'.regOK /\ attempt'.upOK
             /\ regCalls' > attempt'.regs0
             /\ store' # attempt'.store0
             /\ store' = <<secureData'>>
             /\ secureData'.ClientID = ClientID
             /\ secureData'.PrivateKey > attempt'.keys0
             /\ secureData'.KeyID = secureData'.PrivateKey
             /\ secureData'.KeyID \in uploaded']_vars

\* C12 witness: the record of another client has been replaced and a token
\* minted with the new key.
C12_Witness ==
    /\ attempt.saved /\ attempt.loadErr = "ErrInvalidClientID"
    /\ store # <<>> /\ store[1].ClientID = ClientID
    /\ signed = {KeyOf(store[1])}
    /\ \E p \in Procs : pc[p] = "idle" /\ res[p] = "token"

\* C13: no assertion is signed with the private key or the key ID of a
\* stored record whose client ID is not the configured one.
C13_NoForeignKeySigned ==
    (store # <<>> /\ store[1].ClientID # ClientID) =>
        \A k \in signed :
            k[1] # store[1].PrivateKey /\ k[2] # store[1].KeyID

\* C14: Load returns ErrInvalidClientID exactly when the vault's Load
\* succeeded and the record's client ID is not the configured one; with
\* the configured client ID it returns the record and no error; an error of
\* the vault's Load is returned as it is.
C14_LoadErrors ==
    attempt.loadErr # "none" =>
        /\ (attempt.loadErr = "ErrInvalidClientID") <=>
              (/\ attempt.vaultErr = "nil"
               /\ attempt.store0[1].ClientID # ClientID)
        /\ (attempt.vaultErr = "nil"
               /\ attempt.store0[1].ClientID = ClientID) =>
              (attempt.loadErr = "nil" /\ attempt.loadData = attempt.store0[1])
        /\ attempt.vaultErr # "nil" => attempt.loadErr = attempt.vaultErr

\* C14 witness: after a Load that handed on the vault's error, a Load of
\* the same store returned ErrInvalidClientID.
C14_Witness ==
    /\ cause = "load"
    /\ attempt.vaultErr = "nil" /\ attempt.loadErr = "ErrInvalidClientID"
    /\ attempt.loadData.ClientID = OtherClientID

\* C36: when Load fails with an error that is neither "no record" nor "the
\* record of another client", the Token call returns that error wrapped,
\* and goes on to nothing: no registrar call, no key upload, no Save - the
\* stored record stays as it is.
C36_LoadFailureEndsCall ==
    [][/\ \A p \in Procs :
             ops'[p].loadErr = "loadFailed" =>
                /\ ops'[p].reg = 0 /\ ops'[p].upload = 0 /\ ops'[p].save = 0
                /\ ops'[p].nonce = 0 /\ ops'[p].exch = 0
                /\ pc'[p] \in {"fdone", "unlock", "doRet", "idle"}
                /\ (pc[p] = "doRet" /\ pc'[p] = "idle") =>
                      res'[p] = "init: load token data: loadFailed"
       /\ (store' # store \/ regCalls' # regCalls \/ uploaded' # uploaded) =>
             \E q \in Procs :
                /\ pc[q] \in {"registrar", "upload", "save"}
                /\ ops[q].loadErr \in {"ErrNotExist", "ErrInvalidClientID"}]_vars

\* C36 witness: with a registrar at hand and the record of another client
\* in the store, a Token call whose Load failed has returned the wrapped
\* error; nothing was registered and the record is still there.
C36_Witness ==
    /\ hasRegistrar
    /\ store # <<>> /\ store[1].ClientID = OtherClientID
    /\ regCalls = 0 /\ uploaded = {} /\ saveCalls = 0
    /\ \E p \in Procs :
          /\ pc[p] = "idle"
          /\ ops[p].loadErr = "loadFailed"
          /\ res[p] = "init: load token data: loadFailed"

\* C38: whenever the guard of the one-time setup is marked done, the record
\* the source holds in memory, with which it signs, has the configured client
\* ID and is the record the data store holds: the same private key and the
\* same key ID.
C38_DoneMeansRecordInPlace ==
    done =>
        /\ secureData.ClientID = ClientID
        /\ store = <<secureData>>

\* C35: an assertion is signed only with a nonce the same Token call has
\* just fetched from the auth service, and exchanged for a token only after
\* that; a call whose request for the nonce fails signs nothing, sends
\* nothing and returns the error.
C35_NonceBeforeSigning ==
    [][/\ signed' # signed =>
             \E p \in Procs :
                /\ pc[p] = "nonce"
                /\ ops[p].nonce = 0
                /\ ops'[p].nonce = 1 /\ ~ops'[p].failed
                /\ signed' = signed \cup {signKey[p]}
       /\ \A p \in Procs :
             /\ ops'[p].exch > ops[p].exch =>
                   ops[p].nonce = 1 /\ ~ops[p].failed /\ signKey[p] \in signed
             /\ (res'[p] = "token" /\ pc[p] # pc'[p] /\ pc'[p] = "idle") =>
                   ops'[p].nonce = 1 /\ ops'[p].exch = 1
             /\ (ops'[p].nonce > ops[p].nonce /\ ops'[p].failed) =>
                   /\ signed' = signed
                   /\ pc'[p] = "idle"
                   /\ res'[p] = "get nonce"
             /\ (ops[p].nonce = 1 /\ ops[p].exch = 0 /\ ops[p].failed) =>
                   ops'[p].exch = 0]_vars

\* C35 witness: a caller's second Token call has fetched a nonce of its own
\* and has been given a token.
C35_Witness ==
    \E p \in Procs :
       /\ pc[p] = "idle"
       /\ calls[p] = 2
       /\ res[p] = "token"
       /\ ops[p].nonce = 1 /\ ops[p].exch = 1

(***************************************************************************)
(* cachingTokenSource (plextv): a mutex around "valid cached token? else    *)
(* ask the inner source".  The inner source returns an error, a legacy      *)
(* token, a signed token that expires one tick after it is issued, or - as  *)
(* the auth service answered without one - the empty token.                 *)
(***************************************************************************)

InnerOutcomes == {"err", "legacy", "jwt", "empty"}

\* The token invocation number i of the inner source returns at time t.
InnerToken(o, t, i) == [kind |-> o, exp |-> IF o = "jwt" THEN t + 1 ELSE 0, id |-> i]

\* Token.IsValid at time t: a legacy token, or a signed token that parses and
\* whose expiry is after t.
IsValid(tok, t) ==
    \/ tok.kind = "legacy"
    \/ tok.kind = "jwt" /\ tok.exp > t

\* s.token != nil && s.token.IsValid()
HoldsValid == cToken # <<>> /\ IsValid(cToken[1], now)

\* Token, lines 153-156: the nil test, then the wait for the lock.
CacheCall(p) ==
    /\ pc[p] = "idle"
    /\ TotalCalls < MaxCalls
    /\ calls' = [calls EXCEPT ![p] = @ + 1]
    /\ cStart' = [cStart EXCEPT ![p] = Len(log)]
    /\ cUsed' = [cUsed EXCEPT ![p] = 0]
    /\ cSaw' = [cSaw EXCEPT ![p] = FALSE]
    /\ IF ~cHasSource
         THEN /\ cRes' = [cRes EXCEPT ![p] = ErrResult("ErrNoTokenSource", 0)]
              /\ UNCHANGED pc
         ELSE /\ cRes' = [cRes EXCEPT ![p] = NoResult]
              /\ pc' = [pc EXCEPT ![p] = "cLock"]
    /\ ops' = [ops EXCEPT ![p] = NoOps]
    /\ UNCHANGED <<res, guardVars, guardObs, jwtVars,
                   cause, regCalls, saveCalls, attempt, signed,
                   cacheVars, log, cT0, cChk>>
    /\ UNCHANGED pinVars
    /\ UNCHANGED compVars

\* Token without the mutex: the cache is read whoever holds the lock.
CacheCheckNoLock(p) ==
    /\ pc[p] = "cLock"
    /\ cChk' = [cChk EXCEPT ![p] = now]
    /\ cSaw' = [cSaw EXCEPT ![p] = HoldsValid]
    /\ IF HoldsValid
         THEN /\ cRes' = [cRes EXCEPT ![p] = TokResult(cToken)]
              /\ pc' = [pc EXCEPT ![p] = "idle"]
              /\ UNCHANGED <<cLock, cUsed>>
         ELSE /\ cLock' = p
              /\ cUsed' = [cUsed EXCEPT ![p] = Len(log) + 1]
              /\ pc' = [pc EXCEPT ![p] = "cFetch"]
              /\ UNCHANGED cRes
    /\ UNCHANGED <<calls, res, guardVars, guardObs, jwtVars, jwtObs,
                   cToken, cHasSource, usePMS, now, log, cT0, cStart>>
    /\ UNCHANGED pinVars
    /\ UNCHANGED compVars

\* Token with TryLock for Lock: a caller that finds the lock taken gives up.
CacheCheckTryLock(p) ==
    /\ pc[p] = "cLock"
    /\ cChk' = [cChk EXCEPT ![p] = now]
    /\ IF cLock # 0
         THEN /\ cRes' = [cRes EXCEPT ![p] = ErrResult("inner", 0)]
              /\ pc' = [pc EXCEPT ![p] = "idle"]
              /\ UNCHANGED <<cLock, cUsed, cSaw>>
         ELSE /\ cSaw' = [cSaw EXCEPT ![p] = HoldsValid]
              /\ IF HoldsValid
                   THEN /\ cRes' = [cRes EXCEPT ![p] = TokResult(cToken)]
                        /\ pc' = [pc EXCEPT ![p] = "idle"]
                        /\ UNCHANGED <<cLock, cUsed>>
                   ELSE /\ cLock' = p
                        /\ cUsed' = [cUsed EXCEPT ![p] = Len(log) + 1]
                        /\ pc' = [pc EXCEPT ![p] = "cFetch"]
                        /\ UNCHANGED cRes
    /\ UNCHANGED <<calls, res, guardVars, guardObs, jwtVars, jwtObs,
                   cToken, cHasSource, usePMS, now, log, cT0, cStart>>
    /\ UNCHANGED pinVars
    /\ UNCHANGED compVars

\* Token, lines 156-166: take the lock; with a valid token cached return it
\* (the deferred Unlock runs at once), else call the inner source.
CacheCheck(p) ==
    /\ pc[p] = "cLock"
    /\ cLock = 0
    /\ cChk' = [cChk EXCEPT ![p] = now]
    /\ cSaw' = [cSaw EXCEPT ![p] = HoldsValid]
    /\ IF HoldsValid
         THEN /\ cRes' = [cRes EXCEPT ![p] = TokResult(cToken)]
              /\ pc' = [pc EXCEPT ![p] = "idle"]
              /\ UNCHANGED <<cLock, cUsed>>
         ELSE /\ cLock' = p
              /\ cUsed' = [cUsed EXCEPT ![p] = Len(log) + 1]
              /\ pc' = [pc EXCEPT ![p] = "cFetch"]
              /\ UNCHANGED cRes
    /\ UNCHANGED <<calls, res, guardVars, guardObs, jwtVars, jwtObs,
                   cToken, cHasSource, usePMS, now, log, cT0, cStart>>
    /\ UNCHANGED pinVars
    /\ UNCHANGED compVars

\* The end of Token with the token stored before the error is looked at.
CacheFetchedStoreFirst(p, o) ==
    /\ pc[p] = "cFetch"
    /\ LET t == InnerToken(IF o = "err" THEN "empty" ELSE o, now, cUsed[p]) IN
         /\ log' = Append(log, [ok |-> o # "err", tok |-> t])
         /\ cToken' = <<t>>
         /\ cRes' = [cRes EXCEPT ![p] =
                        IF o = "err" THEN ErrResult("inner", cUsed[p])
                                     ELSE TokResult(<<t>>)]
    /\ cLock' = 0
    /\ pc' = [pc EXCEPT ![p] = "idle"]
    /\ UNCHANGED <<calls, res, guardVars, guardObs, jwtVars, jwtObs,
                   cHasSource, usePMS, now, cT0, cStart, cChk, cSaw, cUsed>>
    /\ UNCHANGED pinVars
    /\ UNCHANGED compVars

\* The end of Token without line 170: the token is returned, not kept.
CacheFetchedNoStore(p, o) ==
    /\ pc[p] = "cFetch"
    /\ LET t == InnerToken(IF o = "err" THEN "empty" ELSE o, now, cUsed[p]) IN
         /\ log' = Append(log, [ok |-> o # "err", tok |-> t])
         /\ cRes' = [cRes EXCEPT ![p] =
                        IF o = "err" THEN ErrResult("inner", cUsed[p])
                                     ELSE TokResult(<<t>>)]
    /\ cLock' = 0
    /\ pc' = [pc EXCEPT ![p] = "idle"]
    /\ UNCHANGED <<calls, res, guardVars, guardObs, jwtVars, jwtObs,
                   cToken, cHasSource, usePMS, now, cT0, cStart, cChk, cSaw, cUsed>>
    /\ UNCHANGED pinVars
    /\ UNCHANGED compVars

\* Token, lines 166-171: the inner source has returned; an error goes to the
\* caller as it is, a token is stored and returned; the lock is released.
CacheFetched(p, o) ==
    /\ pc[p] = "cFetch"
    /\ LET t == InnerToken(IF o = "err" THEN "empty" ELSE o, now, cUsed[p]) IN
         /\ log' = Append(log, [ok |-> o # "err", tok |-> t])
         /\ IF o = "err"
              THEN /\ cRes' = [cRes EXCEPT ![p] = ErrResult("inner", cUsed[p])]
                   /\ UNCHANGED cToken
              ELSE /\ cToken' = <<t>>
                   /\ cRes' = [cRes EXCEPT ![p] = TokResult(<<t>>)]
    /\ cLock' = 0
    /\ pc' = [pc EXCEPT ![p] = "idle"]
    /\ UNCHANGED <<calls, res, guardVars, guardObs, jwtVars, jwtObs,
                   cHasSource, usePMS, now, cT0, cStart, cChk, cSaw, cUsed>>
    /\ UNCHANGED pinVars
    /\ UNCHANGED compVars

\* Time passes.
Tick ==
    /\ now < MaxTime
    /\ now' = now + 1
    /\ UNCHANGED <<callVars, guardVars, guardObs, jwtVars, jwtObs,
                   cToken, cLock, cHasSource, usePMS, cacheObs>>
    /\ UNCHANGED pinVars
    /\ UNCHANGED compVars

\* A caching source as tokenSource() builds it: nothing cached, with an
\* inner source or - no registrar configured - without.
InitCache ==
    /\ InitCommon
    /\ JwtAtRest
    /\ cToken = <<>>
    /\ cLock = 0
    /\ cHasSource \in BOOLEAN
    /\ usePMS = FALSE
    /\ now = 0
    /\ log = <<>>
    /\ cT0 = [p \in Procs |-> 0]
    /\ cStart = [p \in Procs |-> 0]
    /\ cChk = [p \in Procs |-> 0]
    /\ cSaw = [p \in Procs |-> FALSE]
    /\ cUsed = [p \in Procs |-> 0]
    /\ cRes = [p \in Procs |-> NoResult]

NextCache ==
    \/ \E p \in Procs :
          \/ CacheCall(p)
          \/ CacheCheck(p)
          \/ \E o \in InnerOutcomes : CacheFetched(p, o)
    \/ Tick

SpecCache == InitCache /\ [][NextCache]_vars

\* Callers whose call of the inner source is under way.
Fetching == {p \in Procs : pc[p] = "cFetch"}

\* C5: at most one invocation of the inner source is under way at any time.
C5_OneFetchAtATime == Cardinality(Fetching) <= 1

\* C5 witness: one caller is inside the inner source while another, which
\* also called Token, waits for the lock.
C5_Witness == \E p, q \in Procs : pc[p] = "cFetch" /\ pc[q] = "cLock"

\* A round of concurrent first calls is over: every caller made one call,
\* each call began before any invocation of the inner source had returned
\* (so all of them were under way together), and all have returned.
RoundDone ==
    /\ cHasSource
    /\ \A p \in Procs : calls[p] = 1 /\ cStart[p] = 0 /\ pc[p] = "idle"

AllFailed == \A i \in 1..Len(log) : ~log[i].ok

C7_OneFetchWhenFirstSucceeds ==
    (RoundDone /\ Len(log) >= 1 /\ log[1].ok) =>
        /\ Len(log) = 1
        /\ \A p \in Procs : cRes[p] = TokResult(<<log[1].tok>>)

\* C7 amended: the same, provided the token the invocation returned is valid
\* when each of the other callers comes to look at the cache.
C7_OneFetchWhenFirstValid ==
    (/\ RoundDone /\ Len(log) >= 1 /\ log[1].ok
     /\ \A p \in Procs : cUsed[p] # 1 => IsValid(log[1].tok, cChk[p])) =>
        /\ Len(log) = 1
        /\ \A p \in Procs : cRes[p] = TokResult(<<log[1].tok>>)

\* C7 witness: a round is over in which one invocation returned a signed
\* token and every caller has that token.
C7_Witness ==
    /\ RoundDone /\ Len(log) = 1 /\ log[1].ok /\ log[1].tok.kind = "jwt"
    /\ \A p \in Procs : cRes[p] = TokResult(<<log[1].tok>>)
    /\ \E p \in Procs : cUsed[p] = 0

\* The caller's invocation of the inner source returns an error in this step.
FetchFails(p) == pc[p] = "cFetch" /\ pc'[p] = "idle" /\ ~log'[Len(log')].ok

\* C8: when the inner source fails, Token returns that error, the cached
\* token stays as it was, and the next call that gets to the cache invokes
\* the inner source again.
C8_FailureNotCached ==
    [][\A p \in Procs :
          /\ FetchFails(p) =>
                /\ cToken' = cToken
                /\ cRes'[p] = ErrResult("inner", cUsed[p])
          /\ (pc[p] = "cLock" /\ pc'[p] # "cLock"
                 /\ Len(log) >= 1 /\ ~log[Len(log)].ok) =>
                pc'[p] = "cFetch"]_vars

\* C8 witness: a signed token was cached and expired, the next invocation
\* failed and left it in the cache, and a third call is invoking the inner
\* source again.
C8_Witness ==
    /\ Len(log) = 2 /\ log[1].ok /\ ~log[2].ok
    /\ cToken = <<log[1].tok>>
    /\ \E p \in Procs : pc[p] = "cFetch"
    /\ \E p \in Procs : pc[p] = "idle" /\ cRes[p] = ErrResult("inner", 2)

\* C9, for the plextv source: a Token call invokes the inner source exactly
\* when, at the moment it holds the lock, no valid token is cached; a token
\* returned without an invocation was valid at that moment.
C9_PlextvFetchIffInvalid ==
    \A p \in Procs :
        (pc[p] = "idle" /\ calls[p] > 0 /\ cHasSource) =>
            /\ (cUsed[p] # 0) <=> ~cSaw[p]
            /\ cUsed[p] = 0 =>
                  /\ cRes[p].kind = "tok" /\ cRes[p].tok # <<>>
                  /\ IsValid(cRes[p].tok[1], cChk[p])

\* for C9: a signed token expired in the cache and the next call fetched a
\* new one.
C9_PlextvWitness ==
    /\ Len(log) = 2 /\ log[1].ok /\ log[1].tok.kind = "jwt" /\ log[2].ok
    /\ \E p \in Procs : pc[p] = "idle" /\ cUsed[p] = 2 /\ ~cSaw[p]

(***************************************************************************)
(* cachingTokenSource (plexauth, tokensource.go lines 418-434): the same    *)
(* contract built on the succeed-once guard, Token = init.Do(fetch into     *)
(* s.token), then return s.token, err.                                      *)
(***************************************************************************)

\* Token, lines 425-428: the nil test, then Do.
OnceCall(p) ==
    /\ pc[p] = "idle"
    /\ TotalCalls < MaxCalls
    /\ calls' = [calls EXCEPT ![p] = @ + 1]
    /\ cT0' = [cT0 EXCEPT ![p] = now]
    /\ cStart' = [cStart EXCEPT ![p] = Len(log)]
    /\ cUsed' = [cUsed EXCEPT ![p] = 0]
    /\ IF ~cHasSource
         THEN /\ cRes' = [cRes EXCEPT ![p] = ErrResult("ErrNoTokenSource", 0)]
              /\ UNCHANGED pc
         ELSE /\ cRes' = [cRes EXCEPT ![p] = NoResult]
              /\ pc' = [pc EXCEPT ![p] = "do"]
    /\ UNCHANGED <<res, guardVars, guardObs, jwtVars, jwtObs, cacheVars,
                   log, cChk, cSaw>>
    /\ UNCHANGED pinVars
    /\ UNCHANGED compVars

\* Token, lines 429-431, the guarded function: s.token, err = inner.Token().
\* Both results are assigned; with an error the inner sources return "".
OnceFetch(p, o) ==
    /\ pc[p] = "f"
    /\ LET i == Len(log) + 1
           t == InnerToken(IF o = "err" THEN "empty" ELSE o, now, i)
       IN
         /\ log' = Append(log, [ok |-> o # "err", tok |-> t])
         /\ cUsed' = [cUsed EXCEPT ![p] = i]
         /\ cToken' = IF o = "err" THEN <<>> ELSE <<t>>
    /\ err' = [err EXCEPT ![p] = IF o = "err" THEN "err" ELSE "nil"]
    /\ fOut' = [fOut EXCEPT ![p] = IF o = "err" THEN "err" ELSE "ok"]
    /\ succeeded' = (succeeded \/ o # "err")
    /\ okAt' = IF okAt = 0 /\ o # "err" THEN execs ELSE okAt
    /\ pc' = [pc EXCEPT ![p] = "fdone"]
    /\ UNCHANGED <<calls, res, done, lock, ranF, execs, panicked,
                   jwtVars, jwtObs, cLock, cHasSource, usePMS, now,
                   cT0, cStart, cChk, cSaw, cRes>>
    /\ UNCHANGED pinVars
    /\ UNCHANGED compVars

\* Token, line 433: return s.token, err.  s.token is read outside the lock;
\* next to an error it may be read while another caller's fetch writes it,
\* so the token handed back with an error is the stored one or the "" a
\* failing fetch writes (seen).
OnceReturn(p, seen) ==
    /\ pc[p] = "doRet"
    /\ cRes' = [cRes EXCEPT ![p] =
                   IF err[p] = "nil"
                     THEN TokResult(cToken)
                     ELSE [ErrResult("inner", cUsed[p]) EXCEPT
                             !.tok = IF seen THEN cToken ELSE <<>>]]
    /\ pc' = [pc EXCEPT ![p] = "idle"]
    /\ UNCHANGED <<calls, res, guardVars, guardObs, jwtVars, jwtObs, cacheVars,
                   log, cT0, cStart, cChk, cSaw, cUsed>>
    /\ UNCHANGED pinVars
    /\ UNCHANGED compVars

InitOnce == InitCache

NextOnce ==
    \/ \E p \in Procs :
          \/ OnceCall(p)
          \/ DoEnter(p)
          \/ DoSlowLock(p)
          \/ DoSlowCheck(p)
          \/ \E o \in InnerOutcomes : OnceFetch(p, o)
          \/ DoSlowStore(p)
          \/ DoSlowUnlock(p)
          \/ \E seen \in BOOLEAN : OnceReturn(p, seen)
    \/ Tick

SpecOnce == InitOnce /\ [][NextOnce]_vars

\* C9: a Token call invokes the inner source if and only if no valid token
\* is cached when it is made; so a call that returns a token without having
\* invoked the inner source returns a token that was valid when the call
\* was made, never a signed token whose expiry had passed.
C9_FetchIffNoValidToken ==
    \A p \in Procs :
        (pc[p] = "idle" /\ calls[p] > 0 /\ cHasSource
           /\ cRes[p].kind = "tok" /\ cUsed[p] = 0) =>
            /\ cRes[p].tok # <<>>
            /\ IsValid(cRes[p].tok[1], cT0[p])

(***************************************************************************)
(* The source tokenSource() assembles: cachingTokenSource ->               *)
(* [ pmsTokenSource -> ] jwtTokenSource -> registrar, or - no option       *)
(* given - a cachingTokenSource over nothing.  (A cache straight over a    *)
(* registrar is the cachingTokenSource above with its inner source.)       *)
(***************************************************************************)

\* cachingTokenSource.Token, lines 153-156, called on the assembled source:
\* the nil test, then the wait for the lock.
SrcCall(p) ==
    /\ pc[p] = "idle"
    /\ TotalCalls < MaxSrcCalls
    /\ calls' = [calls EXCEPT ![p] = @ + 1]
    /\ cStart' = [cStart EXCEPT ![p] = Len(log)]
    /\ cUsed' = [cUsed EXCEPT ![p] = 0]
    /\ cSaw' = [cSaw EXCEPT ![p] = FALSE]
    /\ IF ~cHasSource
         THEN /\ cRes' = [cRes EXCEPT ![p] = ErrResult("ErrNoTokenSource", 0)]
              /\ UNCHANGED pc
         ELSE /\ cRes' = [cRes EXCEPT ![p] = NoResult]
              /\ pc' = [pc EXCEPT ![p] = "cLock"]
    /\ UNCHANGED <<res, guardVars, guardObs, jwtVars, jwtObs,
                   cacheVars, log, cT0, cChk>>
    /\ UNCHANGED pinVars
    /\ UNCHANGED compVars

\* cachingTokenSource.Token, line 166, and pmsTokenSource.Token, line 521:
\* Token of the source below is called; at the bottom of the chain of
\* sources that is Token of the jwtTokenSource.
SrcInner(p) ==
    /\ pc[p] = "cFetch"
    /\ pc' = [pc EXCEPT ![p] = "do"]
    /\ UNCHANGED <<calls, res, guardVars, guardObs, jwtVars, jwtObs,
                   cacheVars, cacheObs>>
    /\ UNCHANGED pinVars
    /\ UNCHANGED compVars

\* pmsTokenSource.Token, lines 521-538: an error of the upstream source is
\* returned wrapped; with a token the media servers are looked up once, and
\* the named server's token or an error is returned.  A panic goes through.
PmsToken(p, o) ==
    /\ pc[p] = "pmsRet"
    /\ pc' = [pc EXCEPT ![p] = "cRet"]
    /\ IF res[p] = "panic"
         THEN UNCHANGED <<res, ops>>
         ELSE IF res[p] # "token"
           THEN /\ res' = [res EXCEPT ![p] = "token: " \o @]
                /\ UNCHANGED ops
           ELSE /\ res' = [res EXCEPT ![p] =
                              IF o = "found" THEN "token" ELSE "media servers"]
                /\ ops' = Op(p, "lookup", o # "found")
    /\ UNCHANGED <<calls, guardVars, guardObs, jwtVars,
                   cause, regCalls, saveCalls, attempt, signed,
                   cacheVars, cacheObs>>
    /\ UNCHANGED pinVars
    /\ UNCHANGED compVars

\* cachingTokenSource.Token, lines 166-171, over the source below: an error
\* goes to the caller as it is, a token is stored and returned; the deferred
\* Unlock runs, also when a panic passes.  The locals of the calls below are
\* gone with the return.
SrcFetched(p) ==
    /\ pc[p] = "cRet"
    /\ LET ok == res[p] = "token"
           t == InnerToken(IF ~ok THEN "empty"
                           ELSE IF usePMS THEN "legacy" ELSE "jwt",
                           now, cUsed[p])
       IN
         /\ log' = Append(log, [ok |-> ok, tok |-> t])
         /\ IF ok
              THEN /\ cToken' = <<t>>
                   /\ cRes' = [cRes EXCEPT ![p] = TokResult(<<t>>)]
              ELSE /\ cRes' = [cRes EXCEPT ![p] =
                                 [ErrResult(res[p], cUsed[p]) EXCEPT
                                    !.kind = IF res[p] = "panic"
                                               THEN "panic" ELSE "err"]]
                   /\ UNCHANGED cToken
    /\ cLock' = 0
    /\ pc' = [pc EXCEPT ![p] = "idle"]
    /\ res' = [res EXCEPT ![p] = "none"]
    /\ err' = [err EXCEPT ![p] = "nil"]
    /\ ranF' = [ranF EXCEPT ![p] = FALSE]
    /\ fOut' = [fOut EXCEPT ![p] = "none"]
    /\ signKey' = [signKey EXCEPT ![p] = <<0, 0>>]
    /\ ops' = [ops EXCEPT ![p] = NoOps]
    /\ UNCHANGED <<calls, done, lock, execs, succeeded, okAt, panicked,
                   store, secureData, hasRegistrar, token, keys, uploaded,
                   cause, regCalls, saveCalls, attempt, signed,
                   cHasSource, usePMS, now,
                   cT0, cStart, cChk, cSaw, cUsed>>
    /\ UNCHANGED pinVars
    /\ UNCHANGED compVars

\* The configurations of tokenSource(): no option at all; WithJWT alone;
\* WithJWT and a registrar; the last two with or without the media server's
\* token being asked for.
InitSource ==
    /\ InitCommon
    /\ store \in {<<>>,
                  <<[ClientID |-> ClientID, PrivateKey |-> 1, KeyID |-> 1]>>,
                  <<[ClientID |-> OtherClientID, PrivateKey |-> 1, KeyID |-> 1]>>}
    /\ secureData = ZeroData
    /\ hasRegistrar \in BOOLEAN
    /\ token = "none"
    /\ keys = 1
    /\ uploaded = {}
    /\ signKey = [p \in Procs |-> <<0, 0>>]
    /\ cause = "none"
    /\ regCalls = 0
    /\ saveCalls = 0
    /\ attempt = NoAttempt
    /\ signed = {}
    /\ ops = [p \in Procs |-> NoOps]
    /\ cToken = <<>>
    /\ cLock = 0
    /\ cHasSource \in BOOLEAN
    /\ usePMS \in BOOLEAN
    /\ ~cHasSource => (~hasRegistrar /\ ~usePMS)
    /\ now = 0
    /\ log = <<>>
    /\ cT0 = [p \in Procs |-> 0]
    /\ cStart = [p \in Procs |-> 0]
    /\ cChk = [p \in Procs |-> 0]
    /\ cSaw = [p \in Procs |-> FALSE]
    /\ cUsed = [p \in Procs |-> 0]
    /\ cRes = [p \in Procs |-> NoResult]

NextSource ==
    \/ \E p \in Procs :
          \/ SrcCall(p)
          \/ CacheCheck(p)
          \/ SrcInner(p)
          \/ DoEnter(p)
          \/ DoSlowLock(p)
          \/ DoSlowCheck(p)
          \/ DoSlowStore(p)
          \/ DoSlowUnlock(p)
          \/ \E ioOK \in BOOLEAN : InitLoad(p, ioOK)
          \/ \E o \in {"valid", "invalid", "err"} : InitRegistrar(p, o)
          \/ InitRegistrarPanic(p)
          \/ \E srvOK \in BOOLEAN : InitUpload(p, srvOK)
          \/ \E ioOK \in BOOLEAN : InitSave(p, ioOK)
          \/ TokenAfterInit(p)
          \/ TokenPanic(p)
          \/ \E srvOK \in BOOLEAN : JWTTokenNonce(p, srvOK)
          \/ \E srvOK \in BOOLEAN : JWTTokenExchange(p, srvOK)
          \/ \E o \in {"found", "notfound", "err"} : PmsToken(p, o)
          \/ SrcFetched(p)

SpecSource == InitSource /\ [][NextSource]_vars

\* errors.Is(e, ErrNoTokenSource): the error itself, or wrapped by Token of
\* the jwtTokenSource ("init: %w") and of the pmsTokenSource ("token: %w").
IsNoTokenSource(e) ==
    e \in {"ErrNoTokenSource", "init: ErrNoTokenSource",
           "token: init: ErrNoTokenSource"}

\* The stored record, if any, is not one of the configured client ID.
NoUsableRecord == store = <<>> \/ store[1].ClientID # ClientID

\* The caller's Token call on the assembled source returns in this step.
SrcReturns(p) == pc[p] = "cRet" /\ pc'[p] = "idle"

\* C15: on a source assembled without a registrar - with no option at all,
\* or with the device-bound store alone and no usable record in it - every
\* Token call returns ErrNoTokenSource, and no call gets as far as the
\* registrar, a key upload, a nonce, a token exchange or a server lookup.
C15_NoRegistrarNoToken ==
    [][~hasRegistrar =>
          /\ regCalls' = 0 /\ uploaded' = {} /\ store' = store
          /\ NoUsableRecord =>
                /\ signed' = {}
                /\ \A p \in Procs :
                      pc'[p] \notin {"registrar", "upload", "save",
                                     "nonce", "exchange"}
          /\ \A p \in Procs :
                /\ (~cHasSource /\ calls'[p] > calls[p]) =>
                      /\ pc'[p] = "idle"
                      /\ cRes'[p] = ErrResult("ErrNoTokenSource", 0)
                /\ (SrcReturns(p) /\ ops[p].loadErr
                                       \in {"ErrNotExist", "ErrInvalidClientID"}) =>
                      /\ cRes'[p].kind = "err"
                      /\ IsNoTokenSource(cRes'[p].e)
                      /\ ops[p] = [NoOps EXCEPT !.load = 1,
                                                !.loadErr = ops[p].loadErr]]_vars

\* C15 witness: on a source with the store alone, holding the record of
\* another client, two calls have run the setup and every caller has got
\* ErrNoTokenSource.
C15_Witness ==
    /\ cHasSource /\ ~hasRegistrar /\ store # <<>> /\ NoUsableRecord
    /\ execs >= 2
    /\ \A p \in Procs :
          /\ pc[p] = "idle"
          /\ cRes[p].kind = "err" /\ IsNoTokenSource(cRes[p].e)

(***************************************************************************)
(* Config.RegisterWithPIN: request a PIN, hand it to the caller's callback, *)
(* then poll ValidatePIN until it returns a valid token or the caller's     *)
(* context is done.  One call is modelled, with its context, the user who   *)
(* may confirm the PIN, and the timer of the wait between two polls.  The   *)
(* poll interval is positive, and a token the auth service hands out for a  *)
(* confirmed PIN is a valid one.                                            *)
(***************************************************************************)

\* everything but the PIN flow
nonPin == <<callVars, guardVars, guardObs, jwtVars, jwtObs, cacheVars, cacheObs,
           compVars>>

\* ctx.Err() of a context that is done.
CtxErrs == {"Canceled", "DeadlineExceeded"}

\* The positions of the poll loop.
Polling == {"validate", "inflight", "wait"}

\* Counting validation requests, up to MaxPolls.
Bump(n) == IF n < MaxPolls THEN n + 1 ELSE n

\* RegisterWithPIN is called, line 76: PINRequest sends its POST, which a
\* context that is already done refuses.
PinCall ==
    /\ pinPc = "start"
    /\ IF pinCtx # "live"
         THEN /\ pinPc' = "done"
              /\ pinRes' = "pin: " \o pinCtx
         ELSE /\ pinPc' = "pinReq"
              /\ UNCHANGED pinRes
    /\ UNCHANGED <<pinCtx, pinConfirmed, pinTimer, pinPolls, pinCb>>
    /\ UNCHANGED nonPin

\* lines 76-79: PINRequest returns; an error ends the call.
PinRequest(ok) ==
    /\ pinPc = "pinReq"
    /\ IF ok
         THEN /\ pinPc' = "callback"
              /\ UNCHANGED pinRes
         ELSE /\ pinPc' = "done"
              /\ pinRes' = IF pinCtx # "live" THEN "pin: " \o pinCtx
                                               ELSE "pin: request"
    /\ UNCHANGED <<pinCtx, pinConfirmed, pinTimer, pinPolls, pinCb>>
    /\ UNCHANGED nonPin

\* line 80: callback(pinResponse, pinURL)
PinCallback ==
    /\ pinPc = "callback"
    /\ pinCb' = pinCb + 1
    /\ pinPc' = "validate"
    /\ UNCHANGED <<pinCtx, pinConfirmed, pinTimer, pinRes, pinPolls>>
    /\ UNCHANGED nonPin

\* The loop with the callback inside it: called anew before every
\* validation request.
PinValidateSendCallsBack ==
    /\ pinPc = "validate"
    /\ pinCb' = IF pinPolls = 0 THEN pinCb ELSE pinCb + 1
    /\ IF pinCtx # "live"
         THEN /\ pinPc' = "wait"
              /\ pinTimer' = FALSE
              /\ UNCHANGED pinPolls
         ELSE /\ pinPc' = "inflight"
              /\ pinPolls' = Bump(pinPolls)
              /\ UNCHANGED pinTimer
    /\ UNCHANGED <<pinCtx, pinConfirmed, pinRes>>
    /\ UNCHANGED nonPin

\* line 82, ValidatePIN: the GET is sent, unless the context is done, in
\* which case the call fails at once and the loop goes to its select with a
\* new timer.
PinValidateSend ==
    /\ pinPc = "validate"
    /\ IF pinCtx # "live"
         THEN /\ pinPc' = "wait"
              /\ pinTimer' = FALSE
              /\ UNCHANGED pinPolls
         ELSE /\ pinPc' = "inflight"
              /\ pinPolls' = Bump(pinPolls)
              /\ UNCHANGED pinTimer
    /\ UNCHANGED <<pinCtx, pinConfirmed, pinRes, pinCb>>
    /\ UNCHANGED nonPin

\* The loop returning whenever ValidatePIN gives no error, valid token or not.
PinValidateRecvNoValidTest(o) ==
    /\ pinPc = "inflight"
    /\ IF o = "answer"
         THEN /\ pinPc' = "done"
              /\ pinRes' = IF pinConfirmed THEN "token" ELSE "empty token"
              /\ UNCHANGED pinTimer
         ELSE /\ pinPc' = "wait"
              /\ pinTimer' = FALSE
              /\ UNCHANGED pinRes
    /\ UNCHANGED <<pinCtx, pinConfirmed, pinPolls, pinCb>>
    /\ UNCHANGED nonPin

\* The loop going back to its wait whatever ValidatePIN returned.
PinValidateRecvDropsToken(o) ==
    /\ pinPc = "inflight"
    /\ pinPc' = "wait"
    /\ pinTimer' = FALSE
    /\ UNCHANGED <<pinCtx, pinConfirmed, pinRes, pinPolls, pinCb>>
    /\ UNCHANGED nonPin

\* lines 82-84 with ValidatePIN, lines 113-128: the request ends with an
\* answer - the token of a confirmed PIN, or none - or with an error
\* (transport, status, or the context ending it).  A valid token is
\* returned; anything else takes the loop to its select with a new timer.
PinValidateRecv(o) ==
    /\ pinPc = "inflight"
    /\ IF o = "answer" /\ pinConfirmed
         THEN /\ pinPc' = "done"
              /\ pinRes' = "token"
              /\ UNCHANGED pinTimer
         ELSE /\ pinPc' = "wait"
              /\ pinTimer' = FALSE
              /\ UNCHANGED pinRes
    /\ UNCHANGED <<pinCtx, pinConfirmed, pinPolls, pinCb>>
    /\ UNCHANGED nonPin

\* The poll interval runs out while the loop waits.  A timer that has not
\* fired when the context is done comes too late: the select has its case.
PinTimerFire ==
    /\ pinPc = "wait"
    /\ ~pinTimer
    /\ pinCtx = "live"
    /\ pinTimer' = TRUE
    /\ UNCHANGED <<pinPc, pinCtx, pinConfirmed, pinRes, pinPolls, pinCb>>
    /\ UNCHANGED nonPin

\* A wait that looks at the context only once the interval has run out.
PinWaitDoneAfterInterval ==
    /\ pinPc = "wait"
    /\ pinTimer
    /\ pinCtx # "live"
    /\ pinPc' = "done"
    /\ pinRes' = pinCtx
    /\ UNCHANGED <<pinCtx, pinConfirmed, pinTimer, pinPolls, pinCb>>
    /\ UNCHANGED nonPin

\* lines 85-87: case <-ctx.Done(): return "", ctx.Err()
PinWaitDone ==
    /\ pinPc = "wait"
    /\ pinCtx # "live"
    /\ pinPc' = "done"
    /\ pinRes' = pinCtx
    /\ UNCHANGED <<pinCtx, pinConfirmed, pinTimer, pinPolls, pinCb>>
    /\ UNCHANGED nonPin

\* A loop that gives up when the interval has run out.
PinWaitElapsedGivesUp ==
    /\ pinPc = "wait"
    /\ pinTimer
    /\ pinPc' = "done"
    /\ pinRes' = "gave up"
    /\ UNCHANGED <<pinCtx, pinConfirmed, pinTimer, pinPolls, pinCb>>
    /\ UNCHANGED nonPin

\* line 88: case <-time.After(...): the next round of the loop.
PinWaitElapsed ==
    /\ pinPc = "wait"
    /\ pinTimer
    /\ pinPc' = "validate"
    /\ UNCHANGED <<pinCtx, pinConfirmed, pinTimer, pinRes, pinPolls, pinCb>>
    /\ UNCHANGED nonPin

\* The caller cancels the context, or its deadline passes.
PinCtxFire(e) ==
    /\ pinCtx = "live"
    /\ pinCtx' = e
    /\ UNCHANGED <<pinPc, pinConfirmed, pinTimer, pinRes, pinPolls, pinCb>>
    /\ UNCHANGED nonPin

\* The user, who has been shown the PIN, confirms it.
PinConfirm ==
    /\ pinCb >= 1
    /\ ~pinConfirmed
    /\ pinConfirmed' = TRUE
    /\ UNCHANGED <<pinPc, pinCtx, pinTimer, pinRes, pinPolls, pinCb>>
    /\ UNCHANGED nonPin

InitPIN == InitCommon /\ JwtAtRest /\ CacheAtRest

\* The steps RegisterWithPIN takes on its own once it is called.
PinFlow ==
    \/ \E ok \in BOOLEAN : PinRequest(ok)
    \/ PinCallback
    \/ PinValidateSend
    \/ \E o \in {"answer", "err"} : PinValidateRecv(o)
    \/ PinWaitDone
    \/ PinWaitElapsed

NextPIN ==
    \/ PinCall
    \/ \E ok \in BOOLEAN : PinRequest(ok)
    \/ PinCallback
    \/ PinValidateSend
    \/ \E o \in {"answer", "err"} : PinValidateRecv(o)
    \/ PinTimerFire
    \/ PinWaitDone
    \/ PinWaitElapsed
    \/ \E e \in CtxErrs : PinCtxFire(e)
    \/ PinConfirm

SpecPIN == InitPIN /\ [][NextPIN]_vars

\* The goroutine running RegisterWithPIN is scheduled, and a request that
\* was sent ends (net/http ends it when the context is done).  Nothing is
\* assumed of the timer, the user or the caller's context.
SpecPINLive == SpecPIN /\ WF_vars(PinFlow)

\* Besides, time passes - a timer that may fire does - and the validation
\* endpoint is reached again and again.
SpecPINFair ==
    /\ SpecPINLive
    /\ WF_vars(PinTimerFire)
    /\ SF_vars(PinValidateRecv("answer"))

\* C16: when the PIN is never confirmed, RegisterWithPIN returns once the
\* context's deadline or cancellation fires, with the context's error and
\* no token, and sends no validation request after it has returned.
C16_UnconfirmedEndsWithCtxErr ==
    /\ [][pinPc = "done" =>
            (pinPc' = "done" /\ pinRes' = pinRes /\ pinPolls' = pinPolls)]_vars
    /\ []((pinPc = "done" /\ pinCb = 1 /\ ~pinConfirmed)
            => (pinCtx \in CtxErrs /\ pinRes = pinCtx))
    /\ ((pinPc \in Polling /\ pinCtx # "live") ~> pinPc = "done")

\* C16 witness: the deadline passed on an unconfirmed PIN after several
\* validation requests, and the call has returned its error.
C16_Witness ==
    /\ pinPc = "done"
    /\ ~pinConfirmed
    /\ pinRes = "DeadlineExceeded"
    /\ pinPolls >= 2

\* C17: once the validation endpoint hands out the auth token, and the
\* context is not cancelled, RegisterWithPIN eventually returns that token
\* with no error; it returns from a validation request with nothing else.
C17_ConfirmedTokenReturned ==
    /\ [][(pinPc = "inflight" /\ pinPc' = "done")
            => (pinConfirmed /\ pinRes' = "token")]_vars
    /\ ((pinConfirmed /\ pinPc \in Polling)
            ~> ((pinPc = "done" /\ pinRes = "token") \/ pinCtx # "live"))

\* C17 witness: the token of a PIN confirmed after some empty answers has
\* been returned under a live context.
C17_Witness ==
    /\ pinPc = "done"
    /\ pinRes = "token"
    /\ pinCtx = "live"
    /\ pinPolls >= 2

\* The positions RegisterWithPIN moves between.
PinEdges ==
    {<<"start", "pinReq">>, <<"start", "done">>,
     <<"pinReq", "callback">>, <<"pinReq", "done">>,
     <<"callback", "validate">>,
     <<"validate", "inflight">>, <<"validate", "wait">>,
     <<"inflight", "wait">>, <<"inflight", "done">>,
     <<"wait", "validate">>, <<"wait", "done">>}

\* C18 as stated: the flow goes Requested -> Polling -> terminal, comes back
\* to Polling after every failed or empty validation response, and every
\* run ends in a terminal state.
C18_EveryRunEnds ==
    (pinCb = 1 /\ pinPc \in Polling) ~> pinPc = "done"

\* C18, amended: the flow goes Requested -> Polling -> {Confirmed,
\* Cancelled}, where Cancelled is the context's cancellation or deadline; it
\* comes back to Polling after every failed or empty validation response,
\* and ends once the PIN is confirmed or the context is done.  With neither
\* it polls for ever: an expiry of the PIN is not looked at.
C18_PinStateMachine ==
    /\ [][pinPc' # pinPc => <<pinPc, pinPc'>> \in PinEdges]_vars
    /\ [][(pinPc = "inflight" /\ pinPc' # pinPc /\ ~pinConfirmed)
            => pinPc' = "wait"]_vars
    /\ [][(pinPc = "wait" /\ pinPc' # pinPc /\ pinCtx = "live")
            => pinPc' = "validate"]_vars
    /\ []((pinPc = "done" /\ pinCb = 1)
            => (pinRes = "token" \/ (pinRes \in CtxErrs /\ pinRes = pinCtx)))
    /\ ((pinCb = 1 /\ pinPc \in Polling /\ (pinConfirmed \/ pinCtx # "live"))
            ~> pinPc = "done")

\* C18 witness: the loop has come back to a validation request after an
\* answer without a token, and the PIN is still not confirmed.
C18_Witness ==
    /\ pinPc = "inflight"
    /\ pinPolls >= 2
    /\ ~pinConfirmed
    /\ pinCtx = "live"

\* C19: a cancellation or deadline that fires while the loop waits between
\* two polls ends the wait: the call returns the context's error and does
\* not wait for the interval to run out.
C19_CancelEndsWait ==
    /\ [][(pinPc = "wait" /\ pinCtx # "live" /\ ~pinTimer /\ pinPc' # pinPc)
            => (pinPc' = "done" /\ pinRes' = pinCtx)]_vars
    /\ ((pinPc = "wait" /\ pinCtx # "live" /\ ~pinTimer)
            ~> (pinPc = "done" /\ pinRes = pinCtx /\ ~pinTimer))

\* C19 witness: the call was cancelled in a wait whose interval had not run
\* out, and has returned the cancellation.
C19_Witness ==
    /\ pinPc = "done"
    /\ pinRes = "Canceled"
    /\ ~pinTimer
    /\ pinPolls >= 1

\* C37: RegisterWithPIN calls the callback once, after PINRequest has
\* returned without error and before the first validation request is sent;
\* when PINRequest fails the callback is not called, no validation request
\* is sent and the error is returned.
C37_CallbackOnceAfterRequest ==
    /\ pinCb <= 1
    /\ pinPc \in {"start", "pinReq", "callback"} => pinCb = 0 /\ pinPolls = 0
    /\ pinPc \in Polling => pinCb = 1
    /\ pinPolls > 0 => pinCb = 1
    /\ pinPc = "done" =>
          IF pinRes \in {"pin: request"} \cup {"pin: " \o e : e \in CtxErrs}
            THEN pinCb = 0 /\ pinPolls = 0
            ELSE pinCb = 1

\* C37 witness: the callback has been called once and the call has returned
\* the token after three validation requests.
C37_Witness ==
    /\ pinPc = "done"
    /\ pinRes = "token"
    /\ pinCb = 1
    /\ pinPolls = 3

\* What a Token call may attempt besides polling for a PIN.
OpNames == {"load", "reg", "upload", "save", "nonce", "exch", "lookup"}

\* C20: within one Token call the vault load, the registrar, the key upload,
\* the vault save, the nonce fetch, the token exchange and the directory
\* lookup are each attempted at most once; after one of them has failed the
\* call attempts nothing more, and it returns an error.
C20_EachStepAtMostOnce ==
    /\ [](\A p \in Procs : \A n \in OpNames : ops[p][n] <= 1)
    /\ [][\A p \in Procs :
            /\ ops[p].failed => (ops'[p] = ops[p] \/ ops'[p] = NoOps)
            /\ (SrcReturns(p) /\ ops[p].failed) => cRes'[p].kind = "err"]_vars

\* C20 witness: a call has attempted each of the seven once, the last of
\* them has failed, and the call is about to return.
C20_Witness ==
    \E p \in Procs :
       /\ pc[p] = "cRet"
       /\ \A n \in OpNames : ops[p][n] = 1
       /\ ops[p].failed
       /\ res[p] = "media servers"

tokenVars == <<callVars, guardVars, guardObs, jwtVars, jwtObs, cacheVars,
               cacheObs, pinVars>>
nonVault == <<tokenVars, cfgVars, pmsVars, mtsVars, mtsObs, waitVars>>

NB == 3
Quote == 2

\* The payloads: strings of at most MaxLen characters 0 and 1.
Payloads == UNION {[1..n -> {0, 1}] : n \in 0..MaxLen}

\* What rand.Read gives for the salt and for the nonce.
Salts == 1..2
Nonces == 1..2

\* json.Marshal of a payload: the string between quotes.
Marshal(t) == <<Quote>> \o t \o <<Quote>>

\* json.Unmarshal into the payload's type: the bytes must be a string
\* between quotes.
Unmarshal(b) ==
    IF /\ Len(b) >= 2
       /\ b[1] = Quote
       /\ b[Len(b)] = Quote
       /\ \A i \in 2..(Len(b) - 1) : b[i] \in {0, 1}
      THEN [ok |-> TRUE, val |-> SubSeq(b, 2, Len(b) - 1)]
      ELSE [ok |-> FALSE, val |-> <<>>]

\* deriveEncryptionKey, lines 181-186
deriveEncryptionKey(passphrase, salt) == [pass |-> passphrase, salt |-> salt]

\* The key stream of a key and a nonce, at the i-th byte.
Stream(key, nonce, i) ==
    ((IF key.pass = "my-passphrase" THEN 0 ELSE 1) + key.salt + nonce + i) % NB

\* The authentication tag GCM computes; x is 0 in a tag as computed.
Tag(key, nonce, c) == [key |-> key, nonce |-> nonce, c |-> c, x |-> 0]

\* encryptAES, lines 189-203, with the nonce rand.Read gave:
\* Seal(nonce, nonce, data, nil) is the nonce, the encrypted bytes, the tag.
encryptAES(data, key, nonce) ==
    LET c == [i \in 1..Len(data) |-> (data[i] + Stream(key, nonce, i)) % NB]
    IN [nonce |-> nonce, c |-> c, tag |-> Tag(key, nonce, c)]

\* decryptAES without the authentication of what it decrypts.
decryptAESNoTagTest(data, key) ==
    [err |-> FALSE,
     clear |-> [i \in 1..Len(data.c) |->
                  (data.c[i] + NB - Stream(key, data.nonce, i)) % NB]]

\* decryptAES leaving the nonce out of the key stream.
decryptAESNoNonce(data, key) ==
    LET ok == data.tag = Tag(key, data.nonce, data.c)
    IN [err |-> ~ok,
        clear |-> IF ok
                    THEN [i \in 1..Len(data.c) |->
                            (data.c[i] + NB - Stream(key, 0, i)) % NB]
                    ELSE <<>>]

\* decryptAES with a tag that does not cover the nonce.
decryptAESNonceNotCovered(data, key) ==
    LET ok == /\ data.tag.key = key
              /\ data.tag.c = data.c
              /\ data.tag.x = 0
    IN [err |-> ~ok,
        clear |-> IF ok
                    THEN [i \in 1..Len(data.c) |->
                            (data.c[i] + NB - Stream(key, data.nonce, i)) % NB]
                    ELSE <<>>]

\* decryptAES, lines 206-221: Open fails unless the tag is the one of the
\* key, the nonce and the encrypted bytes.
decryptAES(data, key) ==
    LET ok == data.tag = Tag(key, data.nonce, data.c)
    IN [err |-> ~ok,
        clear |-> IF ok
                    THEN [i \in 1..Len(data.c) |->
                            (data.c[i] + NB - Stream(key, data.nonce, i)) % NB]
                    ELSE <<>>]

VErr(e, read, derived) ==
    [op |-> "load", err |-> e, val |-> <<>>,
     read |-> read, derived |-> derived, partial |-> FALSE, seen |-> 0]

\* Load looking at the file whether it has the content or not.
VLoadResultNoCache(ioOK) ==
    IF ~ioOK THEN VErr("read", TRUE, FALSE)
    ELSE IF vFile.kind = "absent" THEN VErr("ErrNotExist", TRUE, FALSE)
    ELSE IF vFile.kind \in {"empty", "garbage"}
      THEN VErr("unrecognized file format", TRUE, FALSE)
    ELSE IF vFile.kind = "noVersion"
      THEN VErr("unrecognized file format: missing version", TRUE, FALSE)
    ELSE IF vFile.kind = "badVersion"
      THEN VErr("unsupported version", TRUE, FALSE)
    ELSE LET d == decryptAES(vFile.data,
                             deriveEncryptionKey(vPassphrase, vFile.salt))
             t == Unmarshal(d.clear)
         IN IF d.err THEN VErr("ErrInvalidKey", TRUE, TRUE)
            ELSE IF ~t.ok THEN VErr("decode data", TRUE, TRUE)
            ELSE [op |-> "load", err |-> "nil", val |-> <<t.val>>,
                  read |-> TRUE, derived |-> TRUE, partial |-> FALSE, seen |-> 0]

\* Load, lines 73-125, under the lock: the cached content if there is one;
\* else the file is read (ioOK: the read works), its version looked at, the
\* key derived from the passphrase and the file's salt, the data decrypted
\* and decoded.
VLoadResult(ioOK) ==
    IF vContent # <<>>
      THEN [op |-> "load", err |-> "nil", val |-> vContent,
            read |-> FALSE, derived |-> FALSE, partial |-> FALSE, seen |-> 0]
    ELSE IF ~ioOK THEN VErr("read", TRUE, FALSE)
    ELSE IF vFile.kind = "absent" THEN VErr("ErrNotExist", TRUE, FALSE)
    ELSE IF vFile.kind \in {"empty", "garbage"}
      THEN VErr("unrecognized file format", TRUE, FALSE)
    ELSE IF vFile.kind = "noVersion"
      THEN VErr("unrecognized file format: missing version", TRUE, FALSE)
    ELSE IF vFile.kind = "badVersion"
      THEN VErr("unsupported version", TRUE, FALSE)
    ELSE LET d == decryptAES(vFile.data,
                             deriveEncryptionKey(vPassphrase, vFile.salt))
             t == Unmarshal(d.clear)
         IN IF d.err THEN VErr("ErrInvalidKey", TRUE, TRUE)
            ELSE IF ~t.ok THEN VErr("decode data", TRUE, TRUE)
            ELSE [op |-> "load", err |-> "nil", val |-> <<t.val>>,
                  read |-> TRUE, derived |-> TRUE, partial |-> FALSE, seen |-> 0]

\* What a Load on the Vault is due: its cached content, or else the payload
\* of the Save that wrote the file, when that was one with the Vault's
\* passphrase and the file is as it was written.
Current ==
    IF vContent # <<>> THEN {vContent[1]}
    ELSE IF vOrigin # <<>> /\ ~vOrigin[1].altered
                           /\ vOrigin[1].pass = vPassphrase
      THEN {vOrigin[1].p}
      ELSE {}

\* A caller calls Load.
VLoadCall(p) ==
    /\ vPc[p] = "idle"
    /\ vCalls < MaxVaultCalls
    /\ vCalls' = vCalls + 1
    /\ vPc' = [vPc EXCEPT ![p] = "lLock"]
    /\ vSeen' = [vSeen EXCEPT ![p] = Current]
    /\ UNCHANGED <<vFile, vContent, vPassphrase, vLock, vArg, vRec, vRes,
                   vOrigin, vOpens>>
    /\ UNCHANGED nonVault

\* Load going on without the lock.
VLoadLockNoLock(p) ==
    /\ vPc[p] = "lLock"
    /\ vPc' = [vPc EXCEPT ![p] = "lBody"]
    /\ UNCHANGED <<vFile, vContent, vPassphrase, vLock, vArg, vRec, vRes>>
    /\ UNCHANGED vaultObs
    /\ UNCHANGED nonVault

\* Load, line 70: c.lock.Lock()
VLoadLock(p) ==
    /\ vPc[p] = "lLock"
    /\ vLock = 0
    /\ vLock' = p
    /\ vPc' = [vPc EXCEPT ![p] = "lBody"]
    /\ UNCHANGED <<vFile, vContent, vPassphrase, vArg, vRec, vRes>>
    /\ UNCHANGED vaultObs
    /\ UNCHANGED nonVault

\* Load, lines 73-125 and the deferred Unlock: content that was read from
\* the file is kept, and the call returns.
VLoadBody(p, ioOK) ==
    /\ vPc[p] = "lBody"
    /\ LET r == VLoadResult(ioOK) IN
         /\ vContent' = IF r.err = "nil" THEN r.val ELSE vContent
         /\ vRes' = [r EXCEPT !.partial =
                            (/\ r.read
                             /\ \E q \in VCallers : vPc[q] = "sWrite"),
                                !.seen = Cardinality(vSeen[p])]
    /\ vLock' = IF vLock = p THEN 0 ELSE vLock
    /\ vPc' = [vPc EXCEPT ![p] = "idle"]
    /\ vSeen' = [vSeen EXCEPT ![p] = {}]
    /\ UNCHANGED <<vFile, vPassphrase, vArg, vRec, vOrigin, vCalls, vOpens>>
    /\ UNCHANGED nonVault

\* A caller calls Save with the payload t.
VSaveCall(p, t) ==
    /\ vPc[p] = "idle"
    /\ vCalls < MaxVaultCalls
    /\ vCalls' = vCalls + 1
    /\ vPc' = [vPc EXCEPT ![p] = "sLock"]
    /\ vArg' = [vArg EXCEPT ![p] = t]
    /\ UNCHANGED <<vFile, vContent, vPassphrase, vLock, vRec, vRes,
                   vOrigin, vSeen, vOpens>>
    /\ UNCHANGED nonVault

\* Save, lines 129-161: the lock is taken and the record built, with a new
\* salt, the key derived from it and the passphrase, and the encoded
\* payload encrypted under a new nonce.
VSaveLock(p, salt, nonce) ==
    /\ vPc[p] = "sLock"
    /\ vLock = 0
    /\ vLock' = p
    /\ vRec' = [vRec EXCEPT ![p] =
                  RecordFile(salt,
                     encryptAES(Marshal(vArg[p]),
                                deriveEncryptionKey(vPassphrase, salt), nonce))]
    /\ vPc' = [vPc EXCEPT ![p] = "sOpen"]
    /\ UNCHANGED <<vFile, vContent, vPassphrase, vArg, vRes>>
    /\ UNCHANGED vaultObs
    /\ UNCHANGED nonVault

\* The call returns the error e; the deferred Unlock runs.
VSaveFails(p, e) ==
    /\ vRes' = [NoVRes EXCEPT !.op = "save", !.err = e]
    /\ vLock' = 0
    /\ vPc' = [vPc EXCEPT ![p] = "idle"]
    /\ vArg' = [vArg EXCEPT ![p] = <<>>]
    /\ vRec' = [vRec EXCEPT ![p] = AbsentFile]

\* Save, line 164, afero.WriteFile: the file is opened for writing, created
\* if need be and truncated.
VSaveOpen(p, ioOK) ==
    /\ vPc[p] = "sOpen"
    /\ IF ioOK
         THEN /\ vFile' = FileOf("empty")
              /\ vOrigin' = <<>>
              /\ vPc' = [vPc EXCEPT ![p] = "sWrite"]
              /\ UNCHANGED <<vLock, vArg, vRec, vRes>>
         ELSE /\ VSaveFails(p, "write file")
              /\ UNCHANGED <<vFile, vOrigin>>
    /\ UNCHANGED <<vContent, vPassphrase, vSeen, vCalls, vOpens>>
    /\ UNCHANGED nonVault

\* Save keeping the payload as the content before the file is written.
VSaveWriteCachesFirst(p, ioOK) ==
    /\ vPc[p] = "sWrite"
    /\ vContent' = <<vArg[p]>>
    /\ IF ioOK
         THEN /\ vFile' = vRec[p]
              /\ vOrigin' = <<[p |-> vArg[p], pass |-> vPassphrase,
                               altered |-> FALSE]>>
              /\ vSeen' = [q \in VCallers |->
                             IF vPc[q] \in {"lLock", "lBody"}
                               THEN vSeen[q] \cup {vArg[p]} ELSE vSeen[q]]
              /\ vRes' = [NoVRes EXCEPT !.op = "save", !.err = "nil"]
              /\ vLock' = 0
              /\ vPc' = [vPc EXCEPT ![p] = "idle"]
              /\ vArg' = [vArg EXCEPT ![p] = <<>>]
              /\ vRec' = [vRec EXCEPT ![p] = AbsentFile]
         ELSE /\ VSaveFails(p, "write file")
              /\ UNCHANGED <<vFile, vOrigin, vSeen>>
    /\ UNCHANGED <<vPassphrase, vCalls, vOpens>>
    /\ UNCHANGED nonVault

\* Save, lines 164-171, the write, and the deferred Unlock: the record is
\* written and the payload kept as the content; or the write fails, which
\* leaves the truncated file.
VSaveWrite(p, ioOK) ==
    /\ vPc[p] = "sWrite"
    /\ IF ioOK
         THEN /\ vFile' = vRec[p]
              /\ vContent' = <<vArg[p]>>
              /\ vOrigin' = <<[p |-> vArg[p], pass |-> vPassphrase,
                               altered |-> FALSE]>>
              /\ vSeen' = [q \in VCallers |->
                             IF vPc[q] \in {"lLock", "lBody"}
                               THEN vSeen[q] \cup {vArg[p]} ELSE vSeen[q]]
              /\ vRes' = [NoVRes EXCEPT !.op = "save", !.err = "nil"]
              /\ vLock' = 0
              /\ vPc' = [vPc EXCEPT ![p] = "idle"]
              /\ vArg' = [vArg EXCEPT ![p] = <<>>]
              /\ vRec' = [vRec EXCEPT ![p] = AbsentFile]
         ELSE /\ VSaveFails(p, "write file")
              /\ UNCHANGED <<vFile, vContent, vOrigin, vSeen>>
    /\ UNCHANGED <<vPassphrase, vCalls, vOpens>>
    /\ UNCHANGED nonVault

\* The data with one byte of it changed into b: byte 0 is the nonce, the
\* bytes from 1 are the encrypted ones, the one after them is the tag.
Altered(data, i, b) ==
    IF i = 0 THEN [data EXCEPT !.nonce = b]
    ELSE IF i <= Len(data.c) THEN [data EXCEPT !.c[i] = b]
    ELSE [data EXCEPT !.tag.x = 1]

\* Someone changes one byte of the data of the record a Save has written.
VaultTamper(i, b) ==
    /\ vFile.kind = "record"
    /\ \A p \in VCallers : vPc[p] = "idle"
    /\ vOrigin # <<>>
    /\ ~vOrigin[1].altered
    /\ i <= Len(vFile.data.c) + 1
    /\ IF i = 0 THEN b \in Nonces /\ b # vFile.data.nonce
       ELSE IF i <= Len(vFile.data.c) THEN b # vFile.data.c[i]
       ELSE b = 0
    /\ vFile' = [vFile EXCEPT !.data = Altered(vFile.data, i, b)]
    /\ vOrigin' = <<[vOrigin[1] EXCEPT !.altered = TRUE]>>
    /\ UNCHANGED <<vContent, vPassphrase, vLock, vPc, vArg, vRec, vRes,
                   vSeen, vCalls, vOpens>>
    /\ UNCHANGED nonVault

\* Someone writes a file that is no record of the Vault in its place
\* (vault_test.go, lines 90, 117 and 125).
VaultOverwrite(kind) ==
    /\ vFile.kind \in {"absent", "record"}
    /\ \A p \in VCallers : vPc[p] = "idle"
    /\ vOpens = 0
    /\ vFile' = FileOf(kind)
    /\ vOrigin' = <<>>
    /\ UNCHANGED <<vContent, vPassphrase, vLock, vPc, vArg, vRec, vRes,
                   vSeen, vCalls, vOpens>>
    /\ UNCHANGED nonVault

\* New: another Vault is opened on the file, with the passphrase q, and
\* takes the place of the one before.
VaultReopen(q) ==
    /\ vOpens < MaxOpens
    /\ vLock = 0
    /\ \A p \in VCallers : vPc[p] = "idle"
    /\ vOpens' = vOpens + 1
    /\ vContent' = <<>>
    /\ vPassphrase' = q
    /\ UNCHANGED <<vFile, vLock, vPc, vArg, vRec, vRes, vOrigin, vSeen, vCalls>>
    /\ UNCHANGED nonVault

InitVault ==
    /\ TokenSourcesAtRest
    /\ CfgAtRest /\ PmsAtRest /\ MtsAtRest /\ WaitAtRest
    /\ vFile = AbsentFile
    /\ vContent = <<>>
    /\ vPassphrase = "my-passphrase"
    /\ vLock = 0
    /\ vPc = [p \in VCallers |-> "idle"]
    /\ vArg = [p \in VCallers |-> <<>>]
    /\ vRec = [p \in VCallers |-> AbsentFile]
    /\ vRes = NoVRes
    /\ vOrigin = <<>>
    /\ vSeen = [p \in VCallers |-> {}]
    /\ vCalls = 0
    /\ vOpens = 0

\* One goroutine uses the Vault, and the file is within reach of others.
NextVault ==
    \/ VLoadCall(1)
    \/ VLoadLock(1)
    \/ \E ioOK \in BOOLEAN : VLoadBody(1, ioOK)
    \/ \E t \in Payloads : VSaveCall(1, t)
    \/ \E salt \in Salts, nonce \in Nonces : VSaveLock(1, salt, nonce)
    \/ \E ioOK \in BOOLEAN : VSaveOpen(1, ioOK)
    \/ \E ioOK \in BOOLEAN : VSaveWrite(1, ioOK)
    \/ \E i \in 0..(MaxLen + 3), b \in 0..(NB - 1) : VaultTamper(i, b)
    \/ \E kind \in {"garbage", "noVersion", "badVersion"} : VaultOverwrite(kind)
    \/ \E q \in Passphrases : VaultReopen(q)

SpecVault == InitVault /\ [][NextVault]_vars

\* The file a run of the program before this one may have left: none, or
\* the record of a Save with the same passphrase.
InitVaultShared ==
    /\ TokenSourcesAtRest
    /\ CfgAtRest /\ PmsAtRest /\ MtsAtRest /\ WaitAtRest
    /\ \/ vFile = AbsentFile /\ vOrigin = <<>>
       \/ /\ vFile = RecordFile(1, encryptAES(Marshal(<<>>),
                          deriveEncryptionKey("my-passphrase", 1), 1))
          /\ vOrigin = <<[p |-> <<>>, pass |-> "my-passphrase",
                          altered |-> FALSE]>>
    /\ vContent = <<>>
    /\ vPassphrase = "my-passphrase"
    /\ vLock = 0
    /\ vPc = [p \in VCallers |-> "idle"]
    /\ vArg = [p \in VCallers |-> <<>>]
    /\ vRec = [p \in VCallers |-> AbsentFile]
    /\ vRes = NoVRes
    /\ vSeen = [p \in VCallers |-> {}]
    /\ vCalls = 0
    /\ vOpens = 0

\* The goroutines of one process use one Vault, and nobody else the file.
NextVaultShared ==
    \E p \in VCallers :
       \/ VLoadCall(p)
       \/ VLoadLock(p)
       \/ \E ioOK \in BOOLEAN : VLoadBody(p, ioOK)
       \/ \E t \in Payloads : VSaveCall(p, t)
       \/ \E salt \in Salts, nonce \in Nonces : VSaveLock(p, salt, nonce)
       \/ \E ioOK \in BOOLEAN : VSaveOpen(p, ioOK)
       \/ \E ioOK \in BOOLEAN : VSaveWrite(p, ioOK)

SpecVaultShared == InitVaultShared /\ [][NextVaultShared]_vars

\* The caller's Load, or its Save, returns in this step.
LoadReturns(p) == vPc[p] = "lBody" /\ vPc'[p] = "idle"
SaveSucceeds(p) == vPc[p] = "sWrite" /\ vPc'[p] = "idle" /\ vRes'.err = "nil"

\* C21: a Load that follows a successful Save(P) on a Vault with the
\* passphrase of that Save returns P, be it from the content the Vault has
\* in memory or from the file, read and decrypted again (a read that the
\* file system fails aside).
C21_RoundTrip ==
    [][\A p \in VCallers :
          /\ SaveSucceeds(p) => Current' = {vArg[p]}
          /\ (LoadReturns(p) /\ Current # {} /\ vRes'.err # "read") =>
                /\ vRes'.err = "nil"
                /\ vRes'.val # <<>>
                /\ vRes'.val[1] \in Current]_vars

\* C21 witness: a Vault opened anew on the file of an earlier Save has read
\* and decrypted it, and Load has returned the payload of that Save, one
\* that is not empty.
C21_Witness ==
    /\ vOpens >= 1
    /\ vRes.op = "load" /\ vRes.err = "nil" /\ vRes.read /\ vRes.derived
    /\ vOrigin # <<>>
    /\ vRes.val = <<vOrigin[1].p>>
    /\ vOrigin[1].p # <<>>

\* C22: a Load of a file that was saved with another passphrase than the
\* Vault's fails with the decryption-failure error, and gives no payload.
C22_WrongPassphraseFails ==
    [][\A p \in VCallers :
          (/\ LoadReturns(p)
           /\ vOrigin # <<>>
           /\ vOrigin[1].pass # vPassphrase
           /\ vRes'.err # "read") =>
                /\ vRes'.err = "ErrInvalidKey"
                /\ vRes'.val = <<>>
                /\ vContent' = <<>>]_vars

\* C22 witness: the file is as a Save with the other passphrase wrote it,
\* and Load has returned the decryption failure.
C22_Witness ==
    /\ vRes.op = "load" /\ vRes.err = "ErrInvalidKey"
    /\ vOrigin # <<>>
    /\ ~vOrigin[1].altered
    /\ vOrigin[1].pass # vPassphrase

\* C23: when a byte of the encrypted data of a saved file has been altered,
\* a Load that reads the file returns the decryption-failure error - not an
\* error of reading or of the file's format - and no payload.
C23_TamperDetected ==
    [][\A p \in VCallers :
          (/\ LoadReturns(p)
           /\ vContent = <<>>
           /\ vOrigin # <<>>
           /\ vOrigin[1].altered
           /\ vRes'.err # "read") =>
                /\ vRes'.err = "ErrInvalidKey"
                /\ vRes'.val = <<>>
                /\ vContent' = <<>>]_vars

\* C23 witness: the file was saved with the Vault's passphrase and altered
\* in one byte, and Load has returned the decryption failure.
C23_Witness ==
    /\ vRes.op = "load" /\ vRes.err = "ErrInvalidKey"
    /\ vOrigin # <<>>
    /\ vOrigin[1].altered
    /\ vOrigin[1].pass = vPassphrase

\* C24: a successful Load leaves the payload as the Vault's content; a Load
\* on a Vault that has content returns it without reading the file or
\* deriving a key; and the content of a Vault changes through a Save only.
C24_ContentCached ==
    [][/\ \A p \in VCallers :
            /\ (LoadReturns(p) /\ vRes'.err = "nil") => vContent' = vRes'.val
            /\ (LoadReturns(p) /\ vContent # <<>>) =>
                  /\ vRes'.err = "nil" /\ vRes'.val = vContent
                  /\ ~vRes'.read /\ ~vRes'.derived
                  /\ vContent' = vContent
       /\ (vContent # <<>> /\ vOpens' = vOpens /\ vContent' # vContent) =>
             \E p \in VCallers : SaveSucceeds(p) /\ vContent' = <<vArg[p]>>]_vars

\* C24 witness: after the file was altered the Vault opened on it still
\* returns its content, without reading the file.
C24_Witness ==
    /\ vOpens >= 1
    /\ vRes.op = "load" /\ vRes.err = "nil" /\ ~vRes.read
    /\ vOrigin # <<>>
    /\ vOrigin[1].altered
    /\ vContent = vRes.val

\* Where a call holds the lock.
VCritical == {"lBody", "sOpen", "sWrite"}

\* C25: Load and Save on one Vault exclude each other; a Load never reads a
\* file that a Save has begun and not finished to write, and what it returns
\* without error is the content the Vault had when the Load was called or
\* the payload of a Save that succeeded since.
C25_SaveLoadExclusive ==
    /\ [](\A p, q \in VCallers :
             p # q => ~(vPc[p] \in VCritical /\ vPc[q] \in VCritical))
    /\ [][\A p \in VCallers :
             LoadReturns(p) =>
                /\ ~vRes'.partial
                /\ vRes'.err = "nil" => vRes'.val[1] \in vSeen[p]]_vars

\* C25 witness: a Load called before a Save succeeded has returned the
\* payload of that Save, which was not the content before it.
C25_Witness ==
    /\ vRes.op = "load" /\ vRes.err = "nil"
    /\ vRes.seen = 2

\* The caller's Save returns an error in this step.
SaveFails(p) ==
    vPc[p] \in {"sOpen", "sWrite"} /\ vPc'[p] = "idle" /\ vRes'.err # "nil"

\* C40: a Load or a Save that returns an error leaves the content of the
\* Vault as it was: neither the step that returns the error nor a step of
\* the Save before it changes the content.
C40_ErrorKeepsContent ==
    [][\A p \in VCallers :
          /\ (LoadReturns(p) /\ vRes'.err # "nil") => vContent' = vContent
          /\ SaveFails(p) => vContent' = vContent
          /\ (vPc[p] \in {"sLock", "sOpen"} /\ vPc'[p] \in {"sOpen", "sWrite"}) =>
                vContent' = vContent]_vars

\* C40 witness: a Save on a Vault that has content has truncated the file
\* and failed to write it, and the Vault has the content still.
C40_Witness ==
    /\ vRes.op = "save" /\ vRes.err = "write file"
    /\ vFile.kind = "empty"
    /\ vContent # <<>>

(***************************************************************************)
(* Token.IsValid (plextv/token.go) and the Config methods that want a       *)
(* valid token before they send anything.  Time is counted in minutes.      *)
(***************************************************************************)

nonCfg == <<callVars, guardVars, guardObs, jwtVars, jwtObs,
            cToken, cLock, cHasSource, usePMS, cacheObs, pinVars,
            vaultVars, vaultObs, pmsVars, mtsVars, mtsObs, waitVars>>

\* token.go, line 15
clockSkewTolerance == 1

\* The tokens the calls are made with: the empty one, a short one, one of
\* 20 characters, and JWTs with and without expiry.
CfgTokens ==
    {PlainToken(n) : n \in {0, 9, 20}}
      \cup {JWTText(e, i) : e \in {<<>>} \cup {<<x>> : x \in 0..(MaxTime + 1)},
                             i \in 0..(MaxTime + 2)}

\* Token.IsLegacy, lines 30-35
TokenIsLegacy(tok) == tok.len = 20

\* Token.parseJWT, lines 64-66, at the time t: jwt.Parse without
\* verification of a signature; it validates the claims, with the
\* acceptable skew: exp not passed, iat not in the future.
ParseJWT(tok, t) ==
    IF tok.claims = <<>> THEN [ok |-> FALSE, exp |-> <<>>]
    ELSE LET c == tok.claims[1] IN
      IF c.exp # <<>> /\ ~(t < c.exp[1] + clockSkewTolerance)
        THEN [ok |-> FALSE, exp |-> <<>>]
      ELSE IF t + clockSkewTolerance < c.iat
        THEN [ok |-> FALSE, exp |-> <<>>]
      ELSE [ok |-> TRUE, exp |-> c.exp]

\* IsValid taking every JWT that parses for valid.
TokenIsValidAsParsed(tok, t) ==
    \/ TokenIsLegacy(tok)
    \/ ParseJWT(tok, t).ok

\* Token.IsValid, lines 49-62, at the time t
TokenIsValid(tok, t) ==
    \/ TokenIsLegacy(tok)
    \/ LET r == ParseJWT(tok, t)
       IN r.ok /\ r.exp # <<>> /\ r.exp[1] > t

\* IsValid is called on a token.
CfgIsValid(tok) ==
    /\ cfgOut' = [op |-> "IsValid", tok |-> tok, at |-> now,
                  valid |-> TokenIsValid(tok, now), err |-> "nil", sent |-> 0]
    /\ UNCHANGED <<now, nonCfg>>

\* part_024, lines 743-786: GenerateAndUploadPublicKey makes a key pair and
\* calls UploadPublicKey, which returns ErrInvalidToken for a token that is
\* not valid and else posts the key (srvOK: the service answers 201).
CfgUpload(tok, srvOK) ==
    /\ cfgOut' = IF ~TokenIsValid(tok, now)
                   THEN [op |-> "upload", tok |-> tok, at |-> now,
                         valid |-> FALSE, err |-> "ErrInvalidToken", sent |-> 0]
                   ELSE [op |-> "upload", tok |-> tok, at |-> now,
                         valid |-> TRUE,
                         err |-> IF srvOK THEN "nil" ELSE "jwk", sent |-> 1]
    /\ UNCHANGED <<now, nonCfg>>

\* RegisteredDevices sending its request whatever the token.
CfgDevicesNoTokenTest(tok, srvOK) ==
    /\ cfgOut' = [op |-> "devices", tok |-> tok, at |-> now,
                  valid |-> TokenIsValid(tok, now),
                  err |-> IF srvOK THEN "nil" ELSE "devices", sent |-> 1]
    /\ UNCHANGED <<now, nonCfg>>

\* part_024, lines 1280-1302: RegisteredDevices returns ErrInvalidToken for
\* a token that is not valid and else requests the devices.
CfgDevices(tok, srvOK) ==
    /\ cfgOut' = IF ~TokenIsValid(tok, now)
                   THEN [op |-> "devices", tok |-> tok, at |-> now,
                         valid |-> FALSE, err |-> "ErrInvalidToken", sent |-> 0]
                   ELSE [op |-> "devices", tok |-> tok, at |-> now,
                         valid |-> TRUE,
                         err |-> IF srvOK THEN "nil" ELSE "devices", sent |-> 1]
    /\ UNCHANGED <<now, nonCfg>>

InitConfig ==
    /\ TokenSourcesAtRest
    /\ VaultAtRest /\ CfgAtRest /\ PmsAtRest /\ MtsAtRest /\ WaitAtRest

NextConfig ==
    \/ \E tok \in CfgTokens : CfgIsValid(tok)
    \/ \E tok \in CfgTokens, srvOK \in BOOLEAN : CfgUpload(tok, srvOK)
    \/ \E tok \in CfgTokens, srvOK \in BOOLEAN : CfgDevices(tok, srvOK)
    \/ Tick

SpecConfig == InitConfig /\ [][NextConfig]_vars

\* C28: key upload and device listing, called with the empty token or any
\* other token that is not valid, return the invalid-token error and send
\* no request.
C28_InvalidTokenNoRequest ==
    (cfgOut.op \in {"upload", "devices"}
       /\ (cfgOut.tok = NoToken \/ ~TokenIsValid(cfgOut.tok, cfgOut.at)))
      => (cfgOut.err = "ErrInvalidToken" /\ cfgOut.sent = 0)

\* C28 witness: the key upload was called with a JWT that had expired, and
\* has returned the invalid-token error without a request.
C28_Witness ==
    /\ cfgOut.op = "upload"
    /\ cfgOut.tok.claims # <<>>
    /\ cfgOut.tok.claims[1].exp # <<>>
    /\ cfgOut.tok.claims[1].exp[1] < cfgOut.at
    /\ cfgOut.err = "ErrInvalidToken"
    /\ cfgOut.sent = 0

\* The token is a JWT as far as parseJWT is concerned at the time t, and
\* its expiry is later than t.
SignedAndNotExpired(tok, t) ==
    /\ tok.claims # <<>>
    /\ tok.claims[1].iat <= t + clockSkewTolerance
    /\ tok.claims[1].exp # <<>>
    /\ tok.claims[1].exp[1] > t

\* C29: a token is valid exactly when it has 20 characters or parses as a
\* JWT whose expiry is later than the current time; a JWT whose expiry has
\* passed is not valid; and no request is sent to find out.
C29_ValidIffLegacyOrUnexpired ==
    cfgOut.op = "IsValid" =>
       /\ cfgOut.valid <=> (cfgOut.tok.len = 20
                              \/ SignedAndNotExpired(cfgOut.tok, cfgOut.at))
       /\ (cfgOut.tok.claims # <<>> /\ cfgOut.tok.claims[1].exp # <<>>
             /\ cfgOut.tok.claims[1].exp[1] <= cfgOut.at) => ~cfgOut.valid
       /\ cfgOut.sent = 0

\* C29 witness: IsValid has said no to a JWT that expired less than the
\* skew ago, which parseJWT still accepts.
C29_Witness ==
    /\ cfgOut.op = "IsValid"
    /\ ~cfgOut.valid
    /\ ParseJWT(cfgOut.tok, cfgOut.at).ok
    /\ cfgOut.tok.claims[1].exp = <<cfgOut.at>>

(***************************************************************************)
(* pmsTokenSource (plexauth/tokensource.go, lines 511-539): the token of a  *)
(* media server, looked up in the devices the auth service lists for the    *)
(* token of the upstream source.  A device's token is its place in the      *)
(* list, which tells the entries apart.                                     *)
(***************************************************************************)

nonPms == <<tokenVars, vaultVars, vaultObs, cfgVars, mtsVars, mtsObs, waitVars>>

\* The lists of devices: each device a server of one of two names, or
\* another product.
Dirs == UNION {[1..n -> [name : {"srv1", "srv2"}, pms : BOOLEAN]] :
                  n \in 0..MaxDevices}
Devices(d) ==
    [i \in 1..Len(d) |->
        [Name |-> d[i].name,
         Product |-> IF d[i].pms THEN "Plex Media Server" ELSE "Plex Web",
         Token |-> i]]

\* Config.MediaServers, part_024 lines 1311-1316: slices.DeleteFunc of the
\* devices that are no media server.
RECURSIVE KeepServers(_)
KeepServers(devices) ==
    IF devices = <<>> THEN <<>>
    ELSE IF Head(devices).Product # "Plex Media Server"
      THEN KeepServers(Tail(devices))
      ELSE <<Head(devices)>> \o KeepServers(Tail(devices))

\* The loop taking a server of the name asked for only.
ServerTokenByNameOnly(servers, name) ==
    LET hits == {i \in 1..Len(servers) : servers[i].Name = name}
    IN IF hits = {} THEN 0
       ELSE servers[CHOOSE i \in hits : \A j \in hits : i <= j].Token

\* pmsTokenSource.Token, lines 528-534: the loop over the media servers
\* returns at the first it comes to that fits; 0 when it ends without a
\* return.
ServerToken(servers, name) ==
    LET hits == {i \in 1..Len(servers) :
                    servers[i].Name = name \/ name = ""}
    IN IF hits = {} THEN 0
       ELSE servers[CHOOSE i \in hits : \A j \in hits : i <= j].Token

\* A caller calls Token.
PmsCall ==
    /\ pmsPc = "idle"
    /\ pmsPc' = "inner"
    /\ pmsOut' = [NoPmsOut EXCEPT !.prev = pmsOut.tok]
    /\ UNCHANGED <<pmsDir, pmsName, pmsTok>>
    /\ UNCHANGED nonPms

\* Token going on to the media servers after an error of the upstream
\* source.
PmsInnerErrIgnored(o) ==
    /\ pmsPc = "inner"
    /\ pmsOut' = [pmsOut EXCEPT !.inner = @ + 1,
                                !.up = IF o = "err" THEN "err" ELSE "tok"]
    /\ pmsTok' = <<IF o \in {"legacy", "err"} THEN LegacyToken
                   ELSE IF o = "jwt" THEN JWTText(<<MaxTime + 1>>, 0)
                   ELSE NoToken>>
    /\ pmsPc' = "lookup"
    /\ UNCHANGED <<pmsDir, pmsName>>
    /\ UNCHANGED nonPms

\* lines 521-524: Token of the upstream source is called; its error is
\* returned, wrapped.  The token it gives is a legacy token, a JWT, or ""
\* from a source that takes an answer without a token for one.
PmsInner(o) ==
    /\ pmsPc = "inner"
    /\ IF o = "err"
         THEN /\ pmsOut' = [pmsOut EXCEPT !.inner = @ + 1, !.up = "err",
                                          !.err = "token: upstream"]
              /\ pmsPc' = "idle"
              /\ UNCHANGED pmsTok
         ELSE /\ pmsOut' = [pmsOut EXCEPT !.inner = @ + 1, !.up = "tok"]
              /\ pmsTok' = <<IF o = "legacy" THEN LegacyToken
                             ELSE IF o = "jwt" THEN JWTText(<<MaxTime + 1>>, 0)
                             ELSE NoToken>>
              /\ pmsPc' = "lookup"
    /\ UNCHANGED <<pmsDir, pmsName>>
    /\ UNCHANGED nonPms

\* lines 526-538 with Config.MediaServers: a token that is not valid is
\* refused without a request; else the devices are requested (srvOK: the
\* service answers with the list), the media servers kept, and the token of
\* the first that fits returned, or an error.
PmsLookup(srvOK) ==
    /\ pmsPc = "lookup"
    /\ IF ~TokenIsValid(pmsTok[1], now)
         THEN pmsOut' = [pmsOut EXCEPT !.err = "media servers: ErrInvalidToken"]
         ELSE IF ~srvOK
           THEN pmsOut' = [pmsOut EXCEPT !.reqs = @ + 1,
                                         !.err = "media servers: devices"]
           ELSE LET t == ServerToken(KeepServers(pmsDir), pmsName)
                IN pmsOut' = [pmsOut EXCEPT
                                 !.reqs = @ + 1,
                                 !.tok = t,
                                 !.err = IF t = 0
                                           THEN "media servers: not found"
                                           ELSE "nil"]
    /\ pmsTok' = <<>>
    /\ pmsPc' = "idle"
    /\ UNCHANGED <<pmsDir, pmsName>>
    /\ UNCHANGED nonPms

\* Devices are registered with the auth service, or removed, between two
\* calls.
PmsDirChange(d) ==
    /\ pmsPc = "idle"
    /\ pmsDir # Devices(d)
    /\ pmsDir' = Devices(d)
    /\ UNCHANGED <<pmsPc, pmsName, pmsTok, pmsOut>>
    /\ UNCHANGED nonPms

\* WithPMS(name), with a name or ""; the devices listed at the start.
InitPMS ==
    /\ TokenSourcesAtRest
    /\ VaultAtRest /\ CfgAtRest /\ MtsAtRest /\ WaitAtRest
    /\ pmsPc = "idle"
    /\ pmsDir \in {Devices(d) : d \in Dirs}
    /\ pmsName \in {"", "srv1", "srv2", "missing"}
    /\ pmsTok = <<>>
    /\ pmsOut = NoPmsOut

NextPMS ==
    \/ PmsCall
    \/ \E o \in {"legacy", "jwt", "empty", "err"} : PmsInner(o)
    \/ \E srvOK \in BOOLEAN : PmsLookup(srvOK)
    \/ \E d \in Dirs : PmsDirChange(d)

SpecPMS == InitPMS /\ [][NextPMS]_vars

\* The Token call returns in this step.
PmsReturns == pmsPc # "idle" /\ pmsPc' = "idle"

\* The places in the list of the media servers that fit the name.
Fitting(dir, name) ==
    {i \in 1..Len(dir) :
        /\ dir[i].Product = "Plex Media Server"
        /\ (name = "" \/ dir[i].Name = name)}

\* C26: the resolver returns the token of the first media server in the
\* directory whose name is the one asked for - of the first media server
\* when the name asked for is empty; when none fits it returns the
\* server-not-found error and no token.
C26_FirstMatchingServer ==
    [][(PmsReturns /\ pmsOut'.reqs = 1
          /\ pmsOut'.err # "media servers: devices") =>
         LET fit == Fitting(pmsDir, pmsName) IN
           IF fit = {}
             THEN pmsOut'.err = "media servers: not found" /\ pmsOut'.tok = 0
             ELSE /\ pmsOut'.err = "nil"
                  /\ pmsOut'.tok \in fit
                  /\ \A i \in fit : pmsOut'.tok <= i]_vars

\* C26 witness: asked for srv2 in a directory of srv1 and srv2, the
\* resolver has returned the token of the second entry.
C26_Witness ==
    /\ pmsName = "srv2"
    /\ Len(pmsDir) = 2
    /\ pmsDir[1].Name = "srv1" /\ pmsDir[1].Product = "Plex Media Server"
    /\ pmsDir[2].Name = "srv2" /\ pmsDir[2].Product = "Plex Media Server"
    /\ pmsPc = "idle"
    /\ pmsOut.err = "nil"
    /\ pmsOut.tok = 2

\* C27: every Token call of the resolver calls the upstream source once,
\* and with its token asks the auth service for the devices once, so that
\* the answer is that of the directory as it is now; nothing of a call
\* remains for the next; and when the upstream source fails no request for
\* the devices is made.
C27_LookupOnEveryCall ==
    /\ [][PmsReturns =>
            /\ pmsOut'.inner = 1
            /\ pmsOut'.up = "err" => pmsOut'.reqs = 0
            /\ (pmsOut'.up = "tok" /\ TokenIsValid(pmsTok[1], now)) =>
                  /\ pmsOut'.reqs = 1
                  /\ pmsOut'.err \in {"nil", "media servers: not found"} =>
                        pmsOut'.tok = ServerToken(KeepServers(pmsDir), pmsName)]_vars
    /\ [](pmsPc = "idle" => pmsTok = <<>>)

\* C27 witness: two calls one after the other have returned different
\* tokens, the directory having changed between them.
C27_Witness ==
    /\ pmsPc = "idle"
    /\ pmsOut.reqs = 1
    /\ pmsOut.tok # 0
    /\ pmsOut.prev # 0
    /\ pmsOut.tok # pmsOut.prev

(***************************************************************************)
(* The token source of the media server client (part_015, lines 169-248):   *)
(* the token of the server, kept in an atomic pointer once it is found,     *)
(* the lookup run in a singleflight group.  A token is the number the auth  *)
(* service lists for the server; 0 is a server not registered.              *)
(***************************************************************************)

nonMts == <<tokenVars, vaultVars, vaultObs, cfgVars, pmsVars, waitVars>>

\* What the auth service may list for the server.
MtsListed == 0..2

\* A goroutine calls Token.
MtsCall(p) ==
    /\ mPc[p] = "idle"
    /\ mCalls < MaxMtsCalls
    /\ mCalls' = mCalls + 1
    /\ mPc' = [mPc EXCEPT ![p] = "check"]
    /\ mLoc' = [mLoc EXCEPT ![p] = NoLoc]
    /\ mOps' = [mOps EXCEPT ![p] = 0]
    /\ mLater' = [mLater EXCEPT ![p] = (mFirst # <<>>)]
    /\ UNCHANGED <<mToken, mFlight, mWaiters, mDir, mFirst>>
    /\ UNCHANGED nonMts

\* lines 178-180: t.token.Load(); a token that is there is returned.
MtsCheck(p) ==
    /\ mPc[p] = "check"
    /\ IF mToken # <<>>
         THEN /\ mLoc' = [mLoc EXCEPT ![p] = [err |-> "nil", tok |-> mToken[1]]]
              /\ mPc' = [mPc EXCEPT ![p] = "idle"]
              /\ mFirst' = IF mFirst = <<>> THEN mToken ELSE mFirst
         ELSE /\ mPc' = [mPc EXCEPT ![p] = "do"]
              /\ UNCHANGED <<mLoc, mFirst>>
    /\ UNCHANGED <<mToken, mFlight, mWaiters, mDir, mOps, mLater, mCalls>>
    /\ UNCHANGED nonMts

\* line 182, t.g.Do: with no call of the key in flight the caller runs the
\* function; else it waits for the result of the one in flight.
MtsDo(p) ==
    /\ mPc[p] = "do"
    /\ IF mFlight = 0
         THEN /\ mFlight' = p
              /\ mPc' = [mPc EXCEPT ![p] = "identity"]
              /\ UNCHANGED mWaiters
         ELSE /\ mWaiters' = mWaiters \cup {p}
              /\ mPc' = [mPc EXCEPT ![p] = "wait"]
              /\ UNCHANGED mFlight
    /\ UNCHANGED <<mToken, mLoc, mDir>>
    /\ UNCHANGED mtsObs
    /\ UNCHANGED nonMts

\* pmsClientID, lines 228-248: GET /identity of the media server.
MtsIdentity(p, ok) ==
    /\ mPc[p] = "identity"
    /\ mOps' = [mOps EXCEPT ![p] = @ + 1]
    /\ IF ok
         THEN /\ mPc' = [mPc EXCEPT ![p] = "servers"]
              /\ UNCHANGED mLoc
         ELSE /\ mPc' = [mPc EXCEPT ![p] = "fin"]
              /\ mLoc' = [mLoc EXCEPT ![p] =
                   [err |-> "get pms token: get pms client id", tok |-> 0]]
    /\ UNCHANGED <<mToken, mFlight, mWaiters, mDir, mFirst, mLater, mCalls>>
    /\ UNCHANGED nonMts

\* pmsToken, lines 206-224: the media servers are asked of the auth service
\* and the token of the one with the client ID taken.
MtsServers(p, ok) ==
    /\ mPc[p] = "servers"
    /\ mOps' = [mOps EXCEPT ![p] = @ + 1]
    /\ IF ok /\ mDir # 0
         THEN /\ mPc' = [mPc EXCEPT ![p] = "user"]
              /\ mLoc' = [mLoc EXCEPT ![p] = [err |-> "none", tok |-> mDir]]
         ELSE /\ mPc' = [mPc EXCEPT ![p] = "fin"]
              /\ mLoc' = [mLoc EXCEPT ![p] =
                   [err |-> IF ok THEN "get pms token: pms server not registered"
                            ELSE "get pms token: media servers",
                    tok |-> 0]]
    /\ UNCHANGED <<mToken, mFlight, mWaiters, mDir, mFirst, mLater, mCalls>>
    /\ UNCHANGED nonMts

\* lines 189-192: the user endpoint of the auth service is called.
MtsUser(p, ok) ==
    /\ mPc[p] = "user"
    /\ mOps' = [mOps EXCEPT ![p] = @ + 1]
    /\ mLoc' = [mLoc EXCEPT ![p] =
           IF ok THEN [err |-> "nil", tok |-> mLoc[p].tok]
           ELSE [err |-> "user", tok |-> 0]]
    /\ mPc' = [mPc EXCEPT ![p] = "fin"]
    /\ UNCHANGED <<mToken, mFlight, mWaiters, mDir, mFirst, mLater, mCalls>>
    /\ UNCHANGED nonMts

\* singleflight: the function has returned; the call leaves the group and
\* those that waited for it have its result.
MtsFlightDone(p) ==
    /\ mPc[p] = "fin"
    /\ mFlight = p
    /\ mFlight' = 0
    /\ mWaiters' = {}
    /\ mLoc' = [q \in MCallers |-> IF q \in mWaiters THEN mLoc[p] ELSE mLoc[q]]
    /\ mPc' = [q \in MCallers |->
                 IF q = p \/ q \in mWaiters THEN "store" ELSE mPc[q]]
    /\ UNCHANGED <<mToken, mDir>>
    /\ UNCHANGED mtsObs
    /\ UNCHANGED nonMts

\* lines 196-203: an error is returned; a token is stored and returned.
MtsStore(p) ==
    /\ mPc[p] = "store"
    /\ mPc' = [mPc EXCEPT ![p] = "idle"]
    /\ IF mLoc[p].err # "nil"
         THEN UNCHANGED <<mToken, mFirst>>
         ELSE /\ mToken' = <<mLoc[p].tok>>
              /\ mFirst' = IF mFirst = <<>> THEN <<mLoc[p].tok>> ELSE mFirst
    /\ UNCHANGED <<mFlight, mWaiters, mLoc, mDir, mOps, mLater, mCalls>>
    /\ UNCHANGED nonMts

\* The auth service comes to list another token for the server, or none.
MtsDirChange(d) ==
    /\ mDir # d
    /\ mDir' = d
    /\ UNCHANGED <<mToken, mFlight, mWaiters, mPc, mLoc>>
    /\ UNCHANGED mtsObs
    /\ UNCHANGED nonMts

\* A token source just made; the server registered or not.
InitMts ==
    /\ TokenSourcesAtRest
    /\ VaultAtRest /\ CfgAtRest /\ PmsAtRest /\ WaitAtRest
    /\ mToken = <<>>
    /\ mFlight = 0
    /\ mWaiters = {}
    /\ mPc = [p \in MCallers |-> "idle"]
    /\ mLoc = [p \in MCallers |-> NoLoc]
    /\ mDir \in MtsListed
    /\ mOps = [p \in MCallers |-> 0]
    /\ mFirst = <<>>
    /\ mLater = [p \in MCallers |-> FALSE]
    /\ mCalls = 0

NextMts ==
    \/ \E p \in MCallers : MtsCall(p)
    \/ \E p \in MCallers : MtsCheck(p)
    \/ \E p \in MCallers : MtsDo(p)
    \/ \E p \in MCallers, ok \in BOOLEAN : MtsIdentity(p, ok)
    \/ \E p \in MCallers, ok \in BOOLEAN : MtsServers(p, ok)
    \/ \E p \in MCallers, ok \in BOOLEAN : MtsUser(p, ok)
    \/ \E p \in MCallers : MtsFlightDone(p)
    \/ \E p \in MCallers : MtsStore(p)
    \/ \E d \in MtsListed : MtsDirChange(d)

SpecMts == InitMts /\ [][NextMts]_vars

\* The Token call of p returns in this step.
MtsReturns(p) == mPc[p] # "idle" /\ mPc'[p] = "idle"

\* C30: once a Token call of the media server's token source has succeeded,
\* every call made after it returns the token that call returned, with no
\* request to the identity endpoint or the auth service; a call that fails
\* stores nothing, and a call that finds nothing stored goes through the
\* whole lookup.
C30_TokenKeptAfterSuccess ==
    [][\A p \in MCallers :
         /\ (MtsReturns(p) /\ mLater[p]) =>
               /\ mLoc'[p] = [err |-> "nil", tok |-> mFirst[1]]
               /\ mOps'[p] = 0
         /\ (MtsReturns(p) /\ mLoc'[p].err # "nil") => mToken' = mToken
         /\ (mPc[p] = "check" /\ mToken = <<>>) => mPc'[p] \in {"check", "do"}
         /\ (MtsReturns(p) /\ mOps'[p] # 0 /\ mLoc'[p].err = "nil") =>
               mOps'[p] = 3]_vars

\* A lookup has ended with a token: the token is stored, or a caller holds
\* the result of the lookup and is about to store it.
MtsObtained ==
    \/ mToken # <<>>
    \/ \E q \in MCallers : mPc[q] \in {"fin", "store"} /\ mLoc[q].err = "nil"

\* C39: whatever the interleaving of the Token calls of the media server's
\* token source, the lookup (identity, media servers, user) ends with a token
\* at most once, and no lookup is started once a token has been obtained.
C39_LookupSucceedsOnce ==
    [][\A p \in MCallers :
         /\ (mPc[p] = "user" /\ mPc'[p] = "fin" /\ mLoc'[p].err = "nil") =>
               ~MtsObtained
         /\ (mPc[p] = "do" /\ mPc'[p] = "identity") => ~MtsObtained]_vars

(***************************************************************************)
(* cachingTokenSource.Token (plextv/tokensource.go, lines 152-172) with the *)
(* context of every call: where a call can wait, and what ends the wait.    *)
(* The call waits in s.lock.Lock() for the caller that holds the lock, and  *)
(* in s.tokenSource.Token(ctx) for the source below, which is given the     *)
(* context.                                                                 *)
(***************************************************************************)

nonWait == <<tokenVars, vaultVars, vaultObs, cfgVars, pmsVars, mtsVars, mtsObs>>

\* A caller calls Token with a context that is not done.
WCall(p) ==
    /\ wPc[p] = "idle"
    /\ wCalls < MaxWaitCalls
    /\ wCalls' = wCalls + 1
    /\ wPc' = [wPc EXCEPT ![p] = "lock"]
    /\ wCtx' = [wCtx EXCEPT ![p] = "live"]
    /\ wAt' = [wAt EXCEPT ![p] = "none"]
    /\ wRes' = [wRes EXCEPT ![p] = "none"]
    /\ UNCHANGED <<wLock, wToken>>
    /\ UNCHANGED nonWait

\* line 156: s.lock.Lock() returns when the lock is free, and not before.
WLock(p) ==
    /\ wPc[p] = "lock"
    /\ wLock = 0
    /\ wLock' = p
    /\ wPc' = [wPc EXCEPT ![p] = "check"]
    /\ UNCHANGED <<wCtx, wAt, wToken, wRes, wCalls>>
    /\ UNCHANGED nonWait

\* lines 161-163: a valid token that is cached is returned; the deferred
\* Unlock of line 157.
WCheck(p) ==
    /\ wPc[p] = "check"
    /\ IF wToken
         THEN /\ wRes' = [wRes EXCEPT ![p] = "token"]
              /\ wPc' = [wPc EXCEPT ![p] = "idle"]
              /\ wLock' = 0
         ELSE /\ wPc' = [wPc EXCEPT ![p] = "fetch"]
              /\ UNCHANGED <<wRes, wLock>>
    /\ UNCHANGED <<wCtx, wAt, wToken, wCalls>>
    /\ UNCHANGED nonWait

\* lines 166-171: the source below returns a token, which is cached, or an
\* error of its own.
WFetched(p, ok) ==
    /\ wPc[p] = "fetch"
    /\ wCtx[p] = "live"
    /\ wToken' = ok
    /\ wRes' = [wRes EXCEPT ![p] = IF ok THEN "token" ELSE "err"]
    /\ wPc' = [wPc EXCEPT ![p] = "idle"]
    /\ wLock' = 0
    /\ UNCHANGED <<wCtx, wAt, wCalls>>
    /\ UNCHANGED nonWait

\* lines 166-169: the source below, its context done, returns ctx.Err().
WFetchCancelled(p) ==
    /\ wPc[p] = "fetch"
    /\ wCtx[p] # "live"
    /\ wRes' = [wRes EXCEPT ![p] = wCtx[p]]
    /\ wPc' = [wPc EXCEPT ![p] = "idle"]
    /\ wLock' = 0
    /\ UNCHANGED <<wCtx, wAt, wToken, wCalls>>
    /\ UNCHANGED nonWait

\* The context of a call is cancelled, or its deadline passes; wAt keeps
\* where the call waited then: for the source below, or for the caller that
\* holds the lock.
WCtxDone(p, e) ==
    /\ wPc[p] \in {"lock", "fetch"}
    /\ wCtx[p] = "live"
    /\ wCtx' = [wCtx EXCEPT ![p] = e]
    /\ wAt' = [wAt EXCEPT ![p] =
                 IF wPc[p] = "lock" /\ wLock = 0 THEN @ ELSE wPc[p]]
    /\ UNCHANGED <<wPc, wLock, wToken, wRes, wCalls>>
    /\ UNCHANGED nonWait

\* The cached token expires.
WExpire ==
    /\ wToken
    /\ wToken' = FALSE
    /\ UNCHANGED <<wPc, wCtx, wAt, wLock, wRes, wCalls>>
    /\ UNCHANGED nonWait

InitWait ==
    /\ TokenSourcesAtRest
    /\ VaultAtRest /\ CfgAtRest /\ PmsAtRest /\ MtsAtRest
    /\ WaitAtRest

NextWait ==
    \/ \E p \in WCallers : WCall(p)
    \/ \E p \in WCallers : WLock(p)
    \/ \E p \in WCallers : WCheck(p)
    \/ \E p \in WCallers, ok \in BOOLEAN : WFetched(p, ok)
    \/ \E p \in WCallers : WFetchCancelled(p)
    \/ \E p \in WCallers, e \in CtxErrs : WCtxDone(p, e)
    \/ WExpire

\* A call goes on whenever it can: Lock returns once the lock stays free,
\* and a request whose context is done returns.  Nothing makes the source
\* below answer a call whose context is live.
SpecWait ==
    /\ InitWait /\ [][NextWait]_vars
    /\ \A p \in WCallers :
          /\ WF_vars(WLock(p))
          /\ WF_vars(WCheck(p))
          /\ WF_vars(WFetchCancelled(p))

\* C33: a Token call whose context is cancelled, or whose deadline passes,
\* while it waits - for the source below or for the caller that holds the
\* lock - returns, and what it returns is the error of its context.
C33_CancelEndsEveryWait ==
    \A p \in WCallers :
        [](wAt[p] # "none" => <>(wPc[p] = "idle" /\ wRes[p] \in CtxErrs))
====
